---- MODULE Spec2Model ----
(***************************************************************************)
(* prisma-swagger-autogen: derivation of OpenAPI schemas from a Prisma     *)
(* datamodel and emission of the generated swagger-autogen script.         *)
(*                                                                         *)
(* Two programs of the repository are modelled:                            *)
(*   "index"   src/src/index.ts  (run with command-line flags), started    *)
(*             by src/src/cli.ts;                                          *)
(*   "part000" src/unnamed/part_000 (fixed CONFIG, example synthesis).     *)
(*                                                                         *)
(* JavaScript strings that the code concatenates, splits or inspects are   *)
(* sequences of one-character strings.  JavaScript objects whose key order *)
(* is observable (properties, the schema collection) are sequences of      *)
(* <<key, value>> pairs in insertion order.  An optional value is <<>>     *)
(* (undefined) or <<v>>.                                                   *)
(***************************************************************************)
EXTENDS Integers, Sequences, FiniteSets, TLC

(***************************************************************************)
(* String literals of the sources.                                         *)
(***************************************************************************)
\* Prefixes and suffixes of the generated schema names (index.ts:343, 350-353).
sGet == <<"G", "e", "t">>
sPost == <<"P", "o", "s", "t">>
sPut == <<"P", "u", "t">>
sList == <<"L", "i", "s", "t">>
sResponse == <<"R", "e", "s", "p", "o", "n", "s", "e">>
sRequest == <<"R", "e", "q", "u", "e", "s", "t">>
\* Reference prefixes (index.ts:272, 278, 362; part_000:105, 111, 298).
sRefPrefixAt == <<"#", "/", "c", "o", "m", "p", "o", "n", "e", "n", "t", "s", "/", "@", "s", "c", "h", "e", "m", "a", "s", "/">>
sRefPrefixPlain == <<"#", "/", "c", "o", "m", "p", "o", "n", "e", "n", "t", "s", "/", "s", "c", "h", "e", "m", "a", "s", "/">>
\* Path of the schema container in the generated docs object
\* (index.ts:374-375; part_000:354-355), as segments.
sHash == <<"#">>
sComponents == <<"c", "o", "m", "p", "o", "n", "e", "n", "t", "s">>
sAtSchemas == <<"@", "s", "c", "h", "e", "m", "a", "s">>
sSchemas == <<"s", "c", "h", "e", "m", "a", "s">>
\* Scalar type names of scalarToSchema (index.ts:241-257).
tString == <<"S", "t", "r", "i", "n", "g">>
tBoolean == <<"B", "o", "o", "l", "e", "a", "n">>
tInt == <<"I", "n", "t">>
tBigInt == <<"B", "i", "g", "I", "n", "t">>
tFloat == <<"F", "l", "o", "a", "t">>
tDecimal == <<"D", "e", "c", "i", "m", "a", "l">>
tDateTime == <<"D", "a", "t", "e", "T", "i", "m", "e">>
tJson == <<"J", "s", "o", "n">>
tBytes == <<"B", "y", "t", "e", "s">>
\* Type names outside the fixed set (differing in case, or unknown).
tLowerString == <<"s", "t", "r", "i", "n", "g">>
tUpperInt == <<"I", "N", "T">>
tUuid == <<"U", "u", "i", "d">>
\* Property names of the list schema (index.ts:328-336).
pCount == <<"c", "o", "u", "n", "t">>
pHasPreviousPage == <<"h", "a", "s", "P", "r", "e", "v", "i", "o", "u", "s", "P", "a", "g", "e">>
pHasNextPage == <<"h", "a", "s", "N", "e", "x", "t", "P", "a", "g", "e">>
pPageNumber == <<"p", "a", "g", "e", "N", "u", "m", "b", "e", "r">>
pPageSize == <<"p", "a", "g", "e", "S", "i", "z", "e">>
pTotalPages == <<"t", "o", "t", "a", "l", "P", "a", "g", "e", "s">>
pItems == <<"i", "t", "e", "m", "s">>
\* Field names used by the datamodels.
fId == <<"i", "d">>
fTitle == <<"t", "i", "t", "l", "e">>
fTag == <<"t", "a", "g">>
fTags == <<"t", "a", "g", "s">>
fOwner == <<"o", "w", "n", "e", "r">>
fPosts == <<"p", "o", "s", "t", "s">>
fCreatedAt == <<"c", "r", "e", "a", "t", "e", "d", "A", "t">>
fUpdatedAt == <<"u", "p", "d", "a", "t", "e", "d", "A", "t">>
fV == <<"v">>
fBig == <<"b", "i", "g">>
fRatio == <<"r", "a", "t", "i", "o">>
fPrice == <<"p", "r", "i", "c", "e">>
fMeta == <<"m", "e", "t", "a">>
fBlob == <<"b", "l", "o", "b">>
fFlag == <<"f", "l", "a", "g">>
fCode == <<"c", "o", "d", "e">>
fLevel == <<"l", "e", "v", "e", "l">>
fKey == <<"k", "e", "y">>
fGeo == <<"g", "e", "o">>
\* Model and enum names used by the datamodels.
mUser == <<"U", "s", "e", "r">>
mTag == <<"T", "a", "g">>
mStatus == <<"S", "t", "a", "t", "u", "s">>
mBus == <<"B", "u", "s">>
mBuse == <<"B", "u", "s", "e">>
eStatus == <<"S", "t", "a", "t", "u", "s">>
eRole == <<"R", "o", "l", "e">>
eGetBusResponse == <<"G", "e", "t", "B", "u", "s", "R", "e", "s", "p", "o", "n", "s", "e">>
ePostalRequest == <<"P", "o", "s", "t", "a", "l", "R", "e", "q", "u", "e", "s", "t">>
vActive == <<"A", "C", "T", "I", "V", "E">>
vInactive == <<"I", "N", "A", "C", "T", "I", "V", "E">>
vAdmin == <<"A", "D", "M", "I", "N">>
\* Defaults of DEFAULT_CONFIG (index.ts:45-56).
dControllersGlob == <<".", "/", "*", "*", "/", "c", "o", "n", "t", "r", "o", "l", "l", "e", "r", "s", "/", "*", "*", "/", "*", ".", "t", "s">>
dOutFile == <<".", "/", "s", "w", "a", "g", "g", "e", "r", ".", "c", "o", "n", "f", "i", "g", ".", "j", "s">>
dOpenapiOut == <<".", "/", "*", "*", "/", "o", "p", "e", "n", "a", "p", "i", ".", "j", "s", "o", "n">>
dServiceTitle == <<"M", "i", "c", "r", "o", "s", "e", "r", "v", "i", "c", "e", " ", "S", "w", "a", "g", "g", "e", "r", " ", "D", "o", "c", "s">>
dServerUrl == <<"h", "t", "t", "p", ":", "/", "/", "l", "o", "c", "a", "l", "h", "o", "s", "t", ":", "3", "0", "0", "0">>
dSecuritySchemeName == <<"k", "e", "y", "c", "l", "o", "a", "k", "O", "A", "u", "t", "h">>
dTokenUrl == <<"h", "t", "t", "p", ":", "/", "/", "l", "o", "c", "a", "l", "h", "o", "s", "t", ":", "8", "0", "8", "0", "/", "r", "e", "a", "l", "m", "s", "/", "m", "a", "s", "t", "e", "r", "/", "p", "r", "o", "t", "o", "c", "o", "l", "/", "o", "p", "e", "n", "i", "d", "-", "c", "o", "n", "n", "e", "c", "t", "/", "t", "o", "k", "e", "n">>
dRefreshUrl == <<"h", "t", "t", "p", ":", "/", "/", "l", "o", "c", "a", "l", "h", "o", "s", "t", ":", "8", "0", "8", "0", "/", "r", "e", "a", "l", "m", "s", "/", "m", "a", "s", "t", "e", "r", "/", "p", "r", "o", "t", "o", "c", "o", "l", "/", "o", "p", "e", "n", "i", "d", "-", "c", "o", "n", "n", "e", "c", "t", "/", "r", "e", "f", "r", "e", "s", "h">>
dOpenid == <<"o", "p", "e", "n", "i", "d">>
\* Values of CONFIG (part_000:49-58).
cControllersGlob == <<".", "/", "s", "r", "c", "/", "w", "e", "b", "/", "a", "p", "i", "/", "c", "o", "n", "t", "r", "o", "l", "l", "e", "r", "s", "/", "*", "*", "/", "*", ".", "t", "s">>
cOpenapiOut == <<".", "/", "s", "r", "c", "/", "w", "e", "b", "/", "a", "p", "i", "/", "o", "p", "e", "n", "a", "p", "i", ".", "j", "s", "o", "n">>
cServiceTitle == <<"P", "r", "e", "s", "c", "r", "i", "p", "t", "i", "o", "n", " ", "S", "e", "r", "v", "i", "c", "e">>
cServerUrl == <<"h", "t", "t", "p", ":", "/", "/", "l", "o", "c", "a", "l", "h", "o", "s", "t", ":", "3", "0", "0", "8">>
cTokenUrl == <<"h", "t", "t", "p", ":", "/", "/", "a", "u", "t", "h", ".", "l", "o", "c", "a", "l", "h", "o", "s", "t", "/", "r", "e", "a", "l", "m", "s", "/", "h", "a", "e", "m", "o", "/", "p", "r", "o", "t", "o", "c", "o", "l", "/", "o", "p", "e", "n", "i", "d", "-", "c", "o", "n", "n", "e", "c", "t", "/", "t", "o", "k", "e", "n">>
cRefreshUrl == <<"h", "t", "t", "p", ":", "/", "/", "a", "u", "t", "h", ".", "l", "o", "c", "a", "l", "h", "o", "s", "t", "/", "r", "e", "a", "l", "m", "s", "/", "h", "a", "e", "m", "o", "/", "p", "r", "o", "t", "o", "c", "o", "l", "/", "o", "p", "e", "n", "i", "d", "-", "c", "o", "n", "n", "e", "c", "t", "/", "r", "e", "f", "r", "e", "s", "h">>
cOpenidScope == <<"o", "p", "e", "n", "i", "d", " ", "s", "c", "o", "p", "e">>
\* Flags of parseArgs (index.ts:119, 154-165).
aHelp == <<"-", "-", "h", "e", "l", "p">>
aH == <<"-", "h">>
aSchema == <<"-", "-", "s", "c", "h", "e", "m", "a">>
aProjectRoot == <<"-", "-", "p", "r", "o", "j", "e", "c", "t", "R", "o", "o", "t">>
aControllersGlob == <<"-", "-", "c", "o", "n", "t", "r", "o", "l", "l", "e", "r", "s", "G", "l", "o", "b">>
aOutFile == <<"-", "-", "o", "u", "t", "F", "i", "l", "e">>
aOpenapiOut == <<"-", "-", "o", "p", "e", "n", "a", "p", "i", "O", "u", "t">>
aServiceTitle == <<"-", "-", "s", "e", "r", "v", "i", "c", "e", "T", "i", "t", "l", "e">>
aServerUrl == <<"-", "-", "s", "e", "r", "v", "e", "r", "U", "r", "l">>
aSecuritySchemeName == <<"-", "-", "s", "e", "c", "u", "r", "i", "t", "y", "S", "c", "h", "e", "m", "e", "N", "a", "m", "e">>
aOauthTokenUrl == <<"-", "-", "o", "a", "u", "t", "h", "T", "o", "k", "e", "n", "U", "r", "l">>
aOauthRefreshUrl == <<"-", "-", "o", "a", "u", "t", "h", "R", "e", "f", "r", "e", "s", "h", "U", "r", "l">>
aOauthScopes == <<"-", "-", "o", "a", "u", "t", "h", "S", "c", "o", "p", "e", "s">>
aOmitFields == <<"-", "-", "o", "m", "i", "t", "F", "i", "e", "l", "d", "s">>
sDashDash == <<"-", "-">>
\* Default schema path (index.ts:216; part_000:242).
sDefaultSchema == <<"p", "r", "i", "s", "m", "a", "/", "s", "c", "h", "e", "m", "a", ".", "p", "r", "i", "s", "m", "a">>
\* Error texts (index.ts:91, 95, 219, 227, 233; part_000:244, 257, 265, 271).
msgNotFound == <<"P", "r", "i", "s", "m", "a", " ", "s", "c", "h", "e", "m", "a", " ", "n", "o", "t", " ", "f", "o", "u", "n", "d", " ", "a", "t", " ">>
msgNotFoundColon == <<"P", "r", "i", "s", "m", "a", " ", "s", "c", "h", "e", "m", "a", " ", "n", "o", "t", " ", "f", "o", "u", "n", "d", " ", "a", "t", ":", " ">>
msgNoGetDmmf == <<"@", "p", "r", "i", "s", "m", "a", "/", "i", "n", "t", "e", "r", "n", "a", "l", "s", ".", "g", "e", "t", "D", "M", "M", "F", " ", "n", "o", "t", " ", "a", "v", "a", "i", "l", "a", "b", "l", "e">>
msgBadShape == <<"U", "n", "e", "x", "p", "e", "c", "t", "e", "d", " ", "D", "M", "M", "F", " ", "s", "h", "a", "p", "e", " ", "r", "e", "t", "u", "r", "n", "e", "d", " ", "b", "y", " ", "@", "p", "r", "i", "s", "m", "a", "/", "i", "n", "t", "e", "r", "n", "a", "l", "s", ".", "g", "e", "t", "D", "M", "M", "F">>
msgInvalidJson == <<"I", "n", "v", "a", "l", "i", "d", " ", "J", "S", "O", "N", " ", "f", "o", "r", " ">>
msgColon == <<":", " ">>
msgMustBeObject == <<"m", "u", "s", "t", " ", "b", "e", " ", "a", " ", "J", "S", "O", "N", " ", "o", "b", "j", "e", "c", "t">>
msgNoRuntime == <<"U", "n", "a", "b", "l", "e", " ", "t", "o", " ", "i", "m", "p", "o", "r", "t", " ", "P", "r", "i", "s", "m", "a", " ", "r", "u", "n", "t", "i", "m", "e", ".", " ", "P", "l", "e", "a", "s", "e", " ", "e", "n", "s", "u", "r", "e", " ", "@", "p", "r", "i", "s", "m", "a", "/", "c", "l", "i", "e", "n", "t", " ", "i", "s", " ", "i", "n", "s", "t", "a", "l", "l", "e", "d", " ", "a", "n", "d", " ", "g", "e", "n", "e", "r", "a", "t", "e", "d", ".">>
msgNoGetDmmfRuntime == <<"P", "r", "i", "s", "m", "a", " ", "r", "u", "n", "t", "i", "m", "e", " ", "d", "o", "e", "s", " ", "n", "o", "t", " ", "e", "x", "p", "o", "s", "e", " ", "g", "e", "t", "D", "M", "M", "F", "(", ")", ".", " ", "Y", "o", "u", "r", " ", "P", "r", "i", "s", "m", "a", " ", "v", "e", "r", "s", "i", "o", "n", " ", "m", "a", "y", " ", "b", "e", " ", "i", "n", "c", "o", "m", "p", "a", "t", "i", "b", "l", "e", ".">>
msgFailedLoad == <<"F", "a", "i", "l", "e", "d", " ", "t", "o", " ", "l", "o", "a", "d", " ", "P", "r", "i", "s", "m", "a", " ", "D", "M", "M", "F", ".", " ", "P", "r", "i", "s", "m", "a", " ", "r", "e", "t", "u", "r", "n", "e", "d", " ", "a", "n", " ", "u", "n", "e", "x", "p", "e", "c", "t", "e", "d", " ", "s", "t", "r", "u", "c", "t", "u", "r", "e", ".">>
\* Texts raised by collaborators (module loader, JSON.parse, provider).
msgCannotFindModule == <<"C", "a", "n", "n", "o", "t", " ", "f", "i", "n", "d", " ", "m", "o", "d", "u", "l", "e", " ", "'", "@", "p", "r", "i", "s", "m", "a", "/", "i", "n", "t", "e", "r", "n", "a", "l", "s", "'">>
msgSyntax == <<"U", "n", "e", "x", "p", "e", "c", "t", "e", "d", " ", "t", "o", "k", "e", "n", " ", "i", "n", " ", "J", "S", "O", "N">>
msgProvider == <<"S", "c", "h", "e", "m", "a", " ", "p", "a", "r", "s", "i", "n", "g", " ", "f", "a", "i", "l", "e", "d">>
\* Names of the fixed auxiliary schemas (part_000:301-331).
sExceptionResponse == <<"E", "x", "c", "e", "p", "t", "i", "o", "n", "R", "e", "s", "p", "o", "n", "s", "e">>
sBadRequestResponse == <<"B", "a", "d", "R", "e", "q", "u", "e", "s", "t", "R", "e", "s", "p", "o", "n", "s", "e">>
sNotFoundResponse == <<"N", "o", "t", "F", "o", "u", "n", "d", "R", "e", "s", "p", "o", "n", "s", "e">>
sInternalErrorResponse == <<"I", "n", "t", "e", "r", "n", "a", "l", "E", "r", "r", "o", "r", "R", "e", "s", "p", "o", "n", "s", "e">>
pDetail == <<"d", "e", "t", "a", "i", "l">>
pErrors == <<"e", "r", "r", "o", "r", "s">>
pStatus == <<"s", "t", "a", "t", "u", "s">>
pTitle == <<"t", "i", "t", "l", "e">>
pType == <<"t", "y", "p", "e">>
\* The environment: working directory, argument values, discovered files.
sCwd == <<"/", "a", "p", "p">>
vAltSchema == <<"d", "b", "/", "a", "l", "t", ".", "p", "r", "i", "s", "m", "a">>
vAbsSchema == <<"/", "e", "t", "c", "/", "s", "c", "h", "e", "m", "a", ".", "p", "r", "i", "s", "m", "a">>
vRoot == <<"o", "u", "t">>
vGlob == <<".", "/", "a", "p", "i", "/", "*", ".", "t", "s">>
vWinGlob == <<".", "\\", "a", "p", "i", "\\", "*", ".", "t", "s">>
vTitle == <<"S", "h", "o", "p">>
vOmitCsv == <<" ", "t", "i", "t", "l", "e", ",", " ", "i", "d", " ", ",", ",">>
vOmitNone == <<",">>
vScopesObj == <<"{", "\"", "r", "e", "a", "d", "\"", ":", "\"", "r", "\"", "}">>
vScopesArr == <<"[", "\"", "r", "e", "a", "d", "\"", "]">>
vScopesNull == <<"n", "u", "l", "l">>
vScopesBad == <<"{", "r", "e", "a", "d">>
vRead == <<"r", "e", "a", "d">>
vR == <<"r">>
rFileA == <<"a", "p", "i", "/", "a", ".", "t", "s">>
rFileB == <<"a", "p", "i", "\\", "b", ".", "t", "s">>
\* Keys of the docs object (index.ts:371-391; part_000:351-371).
kInfo == <<"i", "n", "f", "o">>
kServers == <<"s", "e", "r", "v", "e", "r", "s">>
kSecuritySchemes == <<"s", "e", "c", "u", "r", "i", "t", "y", "S", "c", "h", "e", "m", "e", "s">>
kSecurity == <<"s", "e", "c", "u", "r", "i", "t", "y">>
\* Further JSON texts and the win32 working directory.
vScopesNum == <<"7">>
vScopesStr == <<"\"", "r", "e", "a", "d", "\"">>
vScopesTrue == <<"t", "r", "u", "e">>
sCwdWin == <<"C", ":", "\\", "a", "p", "p">>
\* Errors raised by the platform.
msgEisdir == <<"E", "I", "S", "D", "I", "R", ":", " ", "i", "l", "l", "e", "g", "a", "l", " ", "o", "p", "e", "r", "a", "t", "i", "o", "n", " ", "o", "n", " ", "a", " ", "d", "i", "r", "e", "c", "t", "o", "r", "y", ",", " ", "r", "e", "a", "d">>
msgNotIterable == <<"d", "m", "m", "f", ".", "d", "a", "t", "a", "m", "o", "d", "e", "l", ".", "e", "n", "u", "m", "s", " ", "i", "s", " ", "n", "o", "t", " ", "i", "t", "e", "r", "a", "b", "l", "e">>
\* Literal example values (part_000:175, 178, 315-337).
xEpoch == <<"1", "9", "7", "0", "-", "0", "1", "-", "0", "1", "T", "0", "0", ":", "0", "0", ":", "0", "0", ".", "0", "0", "0", "Z">>
xBadRequestTitle == <<"T", "h", "e", " ", "r", "e", "q", "u", "e", "s", "t", " ", "w", "a", "s", " ", "i", "n", "v", "a", "l", "i", "d">>
xBadRequestType == <<"h", "t", "t", "p", "s", ":", "/", "/", "t", "o", "o", "l", "s", ".", "i", "e", "t", "f", ".", "o", "r", "g", "/", "h", "t", "m", "l", "/", "r", "f", "c", "7", "2", "3", "1", "#", "s", "e", "c", "t", "i", "o", "n", "-", "6", ".", "5", ".", "1">>
xNotFoundTitle == <<"T", "h", "e", " ", "s", "p", "e", "c", "i", "f", "i", "e", "d", " ", "r", "e", "s", "o", "u", "r", "c", "e", " ", "w", "a", "s", " ", "n", "o", "t", " ", "f", "o", "u", "n", "d">>
xNotFoundType == <<"h", "t", "t", "p", "s", ":", "/", "/", "d", "a", "t", "a", "t", "r", "a", "c", "k", "e", "r", ".", "i", "e", "t", "f", ".", "o", "r", "g", "/", "d", "o", "c", "/", "h", "t", "m", "l", "/", "r", "f", "c", "7", "2", "3", "1", "#", "s", "e", "c", "t", "i", "o", "n", "-", "6", ".", "5", ".", "4">>
xInternalTitle == <<"A", "n", " ", "e", "r", "r", "o", "r", " ", "o", "c", "c", "u", "r", "r", "e", "d", " ", "w", "h", "i", "l", "e", " ", "p", "r", "o", "c", "e", "s", "s", "i", "n", "g", " ", "y", "o", "u", "r", " ", "r", "e", "q", "u", "e", "s", "t">>
xInternalType == <<"h", "t", "t", "p", "s", ":", "/", "/", "t", "o", "o", "l", "s", ".", "i", "e", "t", "f", ".", "o", "r", "g", "/", "h", "t", "m", "l", "/", "r", "f", "c", "7", "2", "3", "1", "#", "s", "e", "c", "t", "i", "o", "n", "-", "6", ".", "6", ".", "1">>
\* The default schema path resolved against the working directory.
xDefaultPosix == <<"/", "a", "p", "p", "/", "p", "r", "i", "s", "m", "a", "/", "s", "c", "h", "e", "m", "a", ".", "p", "r", "i", "s", "m", "a">>
xDefaultWin == <<"C", ":", "\\", "a", "p", "p", "\\", "p", "r", "i", "s", "m", "a", "\\", "s", "c", "h", "e", "m", "a", ".", "p", "r", "i", "s", "m", "a">>

(***************************************************************************)
(* Bounds of the model.                                                    *)
(***************************************************************************)
\* Largest number of models in a datamodel returned by the provider.
MaxModels == 2

(***************************************************************************)
(* JavaScript strings.                                                     *)
(***************************************************************************)
\* String.prototype.startsWith / endsWith
StartsWith(s, p) == Len(s) >= Len(p) /\ SubSeq(s, 1, Len(p)) = p

EndsWith(s, p) == Len(s) >= Len(p) /\ SubSeq(s, Len(s) - Len(p) + 1, Len(s)) = p

\* String.prototype.split with a one-character separator: "a,,b" gives
\* <<"a", "", "b">> and "" gives <<"">>.
RECURSIVE Split(_, _)
Split(s, ch) ==
    IF \A i \in 1..Len(s) : s[i] # ch
    THEN <<s>>
    ELSE LET i == CHOOSE j \in 1..Len(s) :
                      s[j] = ch /\ \A k \in 1..(j - 1) : s[k] # ch
         IN  <<SubSeq(s, 1, i - 1)>> \o Split(SubSeq(s, i + 1, Len(s)), ch)

\* Array.prototype.join
RECURSIVE Join(_, _)
Join(parts, sep) ==
    IF Len(parts) = 0 THEN <<>>
    ELSE IF Len(parts) = 1 THEN parts[1]
    ELSE parts[1] \o sep \o Join(Tail(parts), sep)

\* String.prototype.trim
Whitespace == {" "}

RECURSIVE TrimStart(_)
TrimStart(s) == IF Len(s) > 0 /\ s[1] \in Whitespace THEN TrimStart(Tail(s)) ELSE s

RECURSIVE TrimEnd(_)
TrimEnd(s) ==
    IF Len(s) > 0 /\ s[Len(s)] \in Whitespace
    THEN TrimEnd(SubSeq(s, 1, Len(s) - 1))
    ELSE s

Trim(s) == TrimEnd(TrimStart(s))

\* String.prototype.includes
Includes(s, sub) ==
    \E i \in 0..(Len(s) - Len(sub)) : SubSeq(s, i + 1, i + Len(sub)) = sub

(***************************************************************************)
(* JavaScript objects with observable key order.                           *)
(***************************************************************************)
ObjKeys(o) == [i \in 1..Len(o) |-> o[i][1]]

ObjHas(o, k) == \E i \in 1..Len(o) : o[i][1] = k

ObjGet(o, k) == o[CHOOSE i \in 1..Len(o) : o[i][1] = k][2]

\* o[k] = v: an existing key keeps its position, a new key is appended.
ObjSet(o, k, v) ==
    IF ObjHas(o, k)
    THEN [i \in 1..Len(o) |-> IF o[i][1] = k THEN <<k, v>> ELSE o[i]]
    ELSE Append(o, <<k, v>>)

\* delete o[k]
ObjDelete(o, k) == SelectSeq(o, LAMBDA e : e[1] # k)

\* delete s.k on a schema record
RemoveKey(s, k) == [x \in DOMAIN s \ {k} |-> s[x]]

\* An optional value: undefined is <<>>, a value v is <<v>>.
Undefined == <<>>

Some(v) == <<v>>

IsDefined(o) == Len(o) > 0

\* a ?? b
Coalesce(o, d) == IF IsDefined(o) THEN o[1] ELSE d

(***************************************************************************)
(* Schema derivation.                                                      *)
(***************************************************************************)
pluralize(name) ==
    IF EndsWith(name, <<"s">>) THEN name \o <<"e", "s">> ELSE name \o <<"s">>

\* Mutant of scalarToSchema: an unknown name falls back to an object.
scalarToSchemaObjectFallback(scalar) ==
    CASE scalar = tString   -> [type |-> "string"]
      [] scalar = tBoolean  -> [type |-> "boolean"]
      [] scalar = tInt      -> [type |-> "integer"]
      [] scalar = tBigInt   -> [type |-> "integer", format |-> "int64"]
      [] scalar = tFloat    -> [type |-> "number"]
      [] scalar = tDecimal  -> [type |-> "number"]
      [] scalar = tDateTime -> [type |-> "string", format |-> "date-time"]
      [] scalar = tJson     -> [type |-> "object"]
      [] scalar = tBytes    -> [type |-> "string", format |-> "byte"]
      [] OTHER              -> [type |-> "object"]

scalarToSchema(scalar) ==
    CASE scalar = tString   -> [type |-> "string"]
      [] scalar = tBoolean  -> [type |-> "boolean"]
      [] scalar = tInt      -> [type |-> "integer"]
      [] scalar = tBigInt   -> [type |-> "integer", format |-> "int64"]
      [] scalar = tFloat    -> [type |-> "number"]
      [] scalar = tDecimal  -> [type |-> "number"]
      [] scalar = tDateTime -> [type |-> "string", format |-> "date-time"]
      [] scalar = tJson     -> [type |-> "object"]
      [] scalar = tBytes    -> [type |-> "string", format |-> "byte"]
      [] OTHER              -> [type |-> "string"]

(***************************************************************************)
(* State.                                                                  *)
(***************************************************************************)
VARIABLES
    program,        \* which program runs: "index" or "part000"
    platform,       \* "posix" or "win32": decides path.sep
    args,           \* process.argv.slice(2)
    pc,             \* position of the run
    parsed,         \* ParsedArgs (index.ts:403)
    cfg,            \* the effective Config (index.ts:404)
    resolvedSchemaPath, \* the path loadDmmfFromProject looked for
    schemaFile,     \* what the file system holds at the schema path the
                    \* arguments designate: "none", "file" or "dir"
    dmmf,           \* the datamodel the provider returned
    schemas,        \* the schema collection being built
    enumIdx,        \* enums already stored
    modelIdx,       \* models already stored
    getSchema,      \* locals of the last iteration of the model loop
    postSchema,
    putSchema,
    written,        \* the writes made to the output file, in order
    error,          \* the error the run was rejected with
    exitCode,       \* process.exitCode / process.exit
    stdout,         \* what was written to process.stdout
    providerCalls,  \* number of calls of getDMMF
    first,          \* the inputs and the output of an earlier run, if any
    globbed,        \* what globSync returned in this run
    calls,          \* the evaluation of buildExampleFromSchema, call by call
    objects,        \* the objects of the build, when followed: heap and roots
    defaults       \* the configuration object of the module: DEFAULT_CONFIG or CONFIG

vars == <<program, platform, args, pc, parsed, cfg, resolvedSchemaPath,
          schemaFile, dmmf,
          schemas, enumIdx, modelIdx, getSchema, postSchema, putSchema,
          written, error, exitCode, stdout, providerCalls,
          first,
          globbed,
          calls,
          objects,
          defaults>>

\* The objects created so far, by address, and the address of the object
\* stored under each key of schemas.
heap == objects[1].heap

roots == objects[1].roots

\* The prefix both programs put before a schema name in a $ref.
RefPrefix == IF program = "index" THEN sRefPrefixAt ELSE sRefPrefixPlain

\* The closure getRefName of the build (index.ts:343; part_000:279).
ModelNames == {mUser, mTag, mStatus, mBus, mBuse}

getRefName == [modelName \in ModelNames |-> sGet \o modelName \o sResponse]

\* Mutant of fieldSchema: the references name the container "schemas"
\* whatever the program emits the collection under.
fieldSchemaPlainPrefix(field, refName) ==
    IF field.kind = "scalar"
    THEN LET base == scalarToSchema(field.type)
         IN  IF field.isList THEN [type |-> "array", items |-> base] ELSE base
    ELSE IF field.kind = "enum"
    THEN LET base == [ref |-> sRefPrefixPlain \o field.type]
         IN  IF field.isList THEN [type |-> "array", items |-> base] ELSE base
    ELSE IF field.kind = "object"
    THEN LET ref == [ref |-> sRefPrefixPlain \o refName[field.type]]
         IN  IF field.isList THEN [type |-> "array", items |-> ref] ELSE ref
    ELSE [type |-> "object"]

\* Mutant of fieldSchema: the list flag is honoured for a field of any kind.
fieldSchemaListOfAnyKind(field, refName) ==
    LET base == IF field.kind = "scalar" THEN scalarToSchema(field.type)
                ELSE IF field.kind = "enum" THEN [ref |-> RefPrefix \o field.type]
                ELSE IF field.kind = "object"
                THEN [ref |-> RefPrefix \o refName[field.type]]
                ELSE [type |-> "object"]
    IN  IF field.isList THEN [type |-> "array", items |-> base] ELSE base

fieldSchema(field, refName) ==
    IF field.kind = "scalar"
    THEN LET base == scalarToSchema(field.type)
         IN  IF field.isList THEN [type |-> "array", items |-> base] ELSE base
    ELSE IF field.kind = "enum"
    THEN LET base == [ref |-> RefPrefix \o field.type]
         IN  IF field.isList THEN [type |-> "array", items |-> base] ELSE base
    ELSE IF field.kind = "object"
    THEN LET ref == [ref |-> RefPrefix \o refName[field.type]]
         IN  IF field.isList THEN [type |-> "array", items |-> ref] ELSE ref
    ELSE [type |-> "object"]

\* The loop of modelToGetSchema over the fields: properties[f.name] = ...
RECURSIVE GetProperties(_, _, _)
GetProperties(fields, refName, properties) ==
    IF fields = <<>> THEN properties
    ELSE GetProperties(Tail(fields), refName,
             ObjSet(properties, Head(fields).name, fieldSchema(Head(fields), refName)))

\* ... and if (f.isRequired) required.push(f.name)
RECURSIVE GetRequired(_, _)
GetRequired(fields, required) ==
    IF fields = <<>> THEN required
    ELSE GetRequired(Tail(fields),
             IF Head(fields).isRequired
             THEN Append(required, Head(fields).name)
             ELSE required)

\* Mutant of modelToGetSchema: the required list is set even when empty.
modelToGetSchemaAlwaysRequired(model, refName) ==
    [type |-> "object",
     properties |-> GetProperties(model.fields, refName, <<>>),
     required |-> GetRequired(model.fields, <<>>)]

modelToGetSchema(model, refName) ==
    LET properties == GetProperties(model.fields, refName, <<>>)
        required   == GetRequired(model.fields, <<>>)
        schema     == [type |-> "object", properties |-> properties]
    IN  IF Len(required) > 0
        THEN [type |-> "object", properties |-> properties, required |-> required]
        ELSE schema

\* JSON.parse(JSON.stringify(schema)): the value is rebuilt node by node.
\* No schema of the programs holds an undefined value, a function or a date,
\* so no key is dropped or converted.
RECURSIVE JsonClone(_)
JsonClone(s) ==
    [k \in DOMAIN s |->
        IF k = "properties"
        THEN [i \in 1..Len(s.properties) |->
                 <<s.properties[i][1], JsonClone(s.properties[i][2])>>]
        ELSE IF k = "items" THEN JsonClone(s.items)
        ELSE IF k = "allOf" THEN [i \in 1..Len(s.allOf) |-> JsonClone(s.allOf[i])]
        ELSE s[k]]

\* Mutant of stripWriteFields: the required list is filtered by the omit-set
\* only, so the name of a removed relation stays in it.
stripWriteFieldsRequiredByOmitOnly(model, readSchema, omit) ==
    LET schema == JsonClone(readSchema)
        relationFieldNames ==
            {model.fields[i].name :
                 i \in {j \in 1..Len(model.fields) : model.fields[j].kind = "object"}}
        Dropped(k) == k \in omit \/ k \in relationFieldNames
    IN  IF "properties" \notin DOMAIN schema THEN schema
        ELSE LET kept == [schema EXCEPT
                             !.properties = SelectSeq(schema.properties,
                                                LAMBDA e : ~Dropped(e[1]))]
             IN  IF "required" \in DOMAIN kept
                 THEN LET required == SelectSeq(kept.required, LAMBDA k : k \notin omit)
                      IN  IF Len(required) = 0
                          THEN RemoveKey(kept, "required")
                          ELSE [kept EXCEPT !.required = required]
                 ELSE kept

stripWriteFields(model, readSchema, omit) ==
    LET schema == JsonClone(readSchema)
        relationFieldNames ==
            {model.fields[i].name :
                 i \in {j \in 1..Len(model.fields) : model.fields[j].kind = "object"}}
        Dropped(k) == k \in omit \/ k \in relationFieldNames
    IN  IF "properties" \notin DOMAIN schema THEN schema
        ELSE LET kept == [schema EXCEPT
                             !.properties = SelectSeq(schema.properties,
                                                LAMBDA e : ~Dropped(e[1]))]
             IN  IF "required" \in DOMAIN kept
                 THEN LET required == SelectSeq(kept.required, LAMBDA k : ~Dropped(k))
                      IN  IF Len(required) = 0
                          THEN RemoveKey(kept, "required")
                          ELSE [kept EXCEPT !.required = required]
                 ELSE kept

\* Mutant of makeAllOptional: the copy keeps its required list.
makeAllOptionalKeepsRequired(schema) == JsonClone(schema)

makeAllOptional(schema) == RemoveKey(JsonClone(schema), "required")

listResponseSchema(itemRef) ==
    [type |-> "object",
     properties |-> <<
         <<pCount, [type |-> "number"]>>,
         <<pHasPreviousPage, [type |-> "boolean"]>>,
         <<pHasNextPage, [type |-> "boolean"]>>,
         <<pPageNumber, [type |-> "number"]>>,
         <<pPageSize, [type |-> "number"]>>,
         <<pTotalPages, [type |-> "number"]>>,
         <<pItems, [type |-> "array", items |-> [ref |-> itemRef]]>> >>,
     required |-> <<pCount, pHasPreviousPage, pHasNextPage, pPageNumber,
                    pPageSize, pTotalPages, pItems>>]

(***************************************************************************)
(* Paths (node:path) on the platform of the run.                           *)
(***************************************************************************)
\* path.sep and process.cwd()
PathSep == IF platform = "posix" THEN "/" ELSE "\\"

Cwd == IF platform = "posix" THEN sCwd ELSE sCwdWin

ensurePosix(p) == Join(Split(p, PathSep), <<"/">>)

\* The segments of a path: win32 accepts both separators.
PathSegments(p) ==
    IF platform = "posix" THEN Split(p, "/")
    ELSE Split([i \in 1..Len(p) |-> IF p[i] = "/" THEN "\\" ELSE p[i]], "\\")

HasDrive(p) == platform = "win32" /\ Len(p) >= 2 /\ p[2] = ":"

IsAbsolute(p) ==
    IF platform = "posix" THEN StartsWith(p, <<"/">>)
    ELSE HasDrive(p) \/ StartsWith(p, <<"\\">>) \/ StartsWith(p, <<"/">>)

\* Normalisation of segments: "" and "." are dropped, ".." removes the
\* segment before it.
RECURSIVE NormalizeSegments(_, _)
NormalizeSegments(segs, acc) ==
    IF segs = <<>> THEN acc
    ELSE LET s == Head(segs)
         IN  NormalizeSegments(Tail(segs),
                 IF s = <<>> \/ s = <<".">> THEN acc
                 ELSE IF s = <<".", ".">>
                 THEN (IF Len(acc) > 0 THEN SubSeq(acc, 1, Len(acc) - 1) ELSE acc)
                 ELSE Append(acc, s))

\* path.resolve(base, p) for an absolute base.
PathResolve(base, p) ==
    LET WithoutDrive(q) == IF HasDrive(q) THEN SubSeq(q, 3, Len(q)) ELSE q
        root  == IF platform = "posix" THEN <<"/">>
                 ELSE (IF HasDrive(p) THEN SubSeq(p, 1, 2) ELSE SubSeq(base, 1, 2))
                      \o <<"\\">>
        segs  == IF IsAbsolute(p)
                 THEN PathSegments(WithoutDrive(p))
                 ELSE PathSegments(WithoutDrive(base)) \o PathSegments(p)
    IN  root \o Join(NormalizeSegments(segs, <<>>), <<PathSep>>)

(***************************************************************************)
(* Command line and configuration (index.ts).                              *)
(***************************************************************************)
DEFAULT_CONFIG ==
    [projectRoot |-> Cwd,
     controllersGlob |-> dControllersGlob,
     outFile |-> dOutFile,
     openapiOut |-> dOpenapiOut,
     serviceTitle |-> dServiceTitle,
     serverUrl |-> dServerUrl,
     securitySchemeName |-> dSecuritySchemeName,
     oauth |-> [tokenUrl |-> dTokenUrl,
                refreshUrl |-> dRefreshUrl,
                scopes |-> << <<dOpenid, dOpenid>> >>],
     omitFieldsInWriteDtos |-> {fId, fCreatedAt, fUpdatedAt, fV}]

\* JSON.parse on the texts the runs pass to it.
JsonParse(text) ==
    CASE text = vScopesObj  -> [ok |-> TRUE, kind |-> "object",
                                value |-> << <<vRead, vR>> >>]
      [] text = vScopesArr  -> [ok |-> TRUE, kind |-> "array"]
      [] text = vScopesNull -> [ok |-> TRUE, kind |-> "null"]
      [] text = vScopesNum  -> [ok |-> TRUE, kind |-> "number"]
      [] text = vScopesStr  -> [ok |-> TRUE, kind |-> "string"]
      [] text = vScopesTrue -> [ok |-> TRUE, kind |-> "boolean"]
      [] OTHER              -> [ok |-> FALSE, message |-> msgSyntax]

\* Mutant of parseJsonObject: only typeof is tested, so an array passes.
parseJsonObjectAcceptsArrays(value, flagName) ==
    LET p == JsonParse(value)
        Thrown(m) == [thrown |-> TRUE,
                      message |-> msgInvalidJson \o flagName \o msgColon \o m]
    IN  IF ~p.ok THEN Thrown(p.message)
        ELSE IF p.kind \notin {"object", "array"} THEN Thrown(msgMustBeObject)
        ELSE [thrown |-> FALSE,
              value |-> IF p.kind = "object" THEN p.value ELSE <<>>]

\* Returns the parsed object, or the error thrown.
parseJsonObject(value, flagName) ==
    LET p == JsonParse(value)
        Thrown(m) == [thrown |-> TRUE,
                      message |-> msgInvalidJson \o flagName \o msgColon \o m]
    IN  IF ~p.ok THEN Thrown(p.message)
        ELSE IF p.kind # "object" THEN Thrown(msgMustBeObject)
        ELSE [thrown |-> FALSE, value |-> p.value]

parseCsv(value) ==
    LET parts   == Split(value, ",")
        trimmed == [i \in 1..Len(parts) |-> Trim(parts[i])]
    IN  SelectSeq(trimmed, LAMBDA s : Len(s) > 0)

\* Mutant of readFlagValue: the last occurrence of the flag is the one read.
readFlagValueLast(argv, flag) ==
    LET found == {i \in 1..Len(argv) : argv[i] = flag}
    IN  IF found = {} THEN Undefined
        ELSE LET i == CHOOSE j \in found : \A k \in found : j >= k
             IN  IF i + 1 > Len(argv) THEN Undefined
                 ELSE IF argv[i + 1] = <<>> \/ StartsWith(argv[i + 1], sDashDash)
                 THEN Undefined
                 ELSE Some(argv[i + 1])

readFlagValue(argv, flag) ==
    LET found == {i \in 1..Len(argv) : argv[i] = flag}
    IN  IF found = {} THEN Undefined
        ELSE LET i == CHOOSE j \in found : \A k \in found : j <= k
             IN  IF i + 1 > Len(argv) THEN Undefined
                 ELSE IF argv[i + 1] = <<>> \/ StartsWith(argv[i + 1], sDashDash)
                 THEN Undefined
                 ELSE Some(argv[i + 1])

hasFlag(argv, flag) == \E i \in 1..Len(argv) : argv[i] = flag

\* parseArgs: "help" (usage printed, process.exit(0)), "throw" or "ok".
parseArgs(argv) ==
    LET oauthScopesRaw == readFlagValue(argv, aOauthScopes)
        omitFieldsRaw  == readFlagValue(argv, aOmitFields)
        scopes == IF IsDefined(oauthScopesRaw)
                  THEN parseJsonObject(oauthScopesRaw[1], aOauthScopes)
                  ELSE [thrown |-> FALSE]
    IN  IF hasFlag(argv, aHelp) \/ hasFlag(argv, aH) THEN [outcome |-> "help"]
        ELSE IF scopes.thrown THEN [outcome |-> "throw", message |-> scopes.message]
        ELSE [outcome |-> "ok",
              parsed |->
                [schemaPath |-> readFlagValue(argv, aSchema),
                 projectRoot |-> readFlagValue(argv, aProjectRoot),
                 controllersGlob |-> readFlagValue(argv, aControllersGlob),
                 outFile |-> readFlagValue(argv, aOutFile),
                 openapiOut |-> readFlagValue(argv, aOpenapiOut),
                 serviceTitle |-> readFlagValue(argv, aServiceTitle),
                 serverUrl |-> readFlagValue(argv, aServerUrl),
                 securitySchemeName |-> readFlagValue(argv, aSecuritySchemeName),
                 oauthTokenUrl |-> readFlagValue(argv, aOauthTokenUrl),
                 oauthRefreshUrl |-> readFlagValue(argv, aOauthRefreshUrl),
                 oauthScopes |-> IF IsDefined(oauthScopesRaw)
                                 THEN Some(scopes.value) ELSE Undefined,
                 omitFieldsInWriteDtos |->
                     IF IsDefined(omitFieldsRaw)
                     THEN Some(parseCsv(omitFieldsRaw[1])) ELSE Undefined]]

mergeConfig(base, p) ==
    LET merged ==
          [projectRoot |-> IF IsDefined(p.projectRoot)
                           THEN PathResolve(Cwd, p.projectRoot[1])
                           ELSE base.projectRoot,
           controllersGlob |-> Coalesce(p.controllersGlob, base.controllersGlob),
           outFile |-> Coalesce(p.outFile, base.outFile),
           openapiOut |-> Coalesce(p.openapiOut, base.openapiOut),
           serviceTitle |-> Coalesce(p.serviceTitle, base.serviceTitle),
           serverUrl |-> Coalesce(p.serverUrl, base.serverUrl),
           securitySchemeName |->
               Coalesce(p.securitySchemeName, base.securitySchemeName),
           oauth |-> [tokenUrl |-> Coalesce(p.oauthTokenUrl, base.oauth.tokenUrl),
                      refreshUrl |->
                          Coalesce(p.oauthRefreshUrl, base.oauth.refreshUrl),
                      scopes |-> Coalesce(p.oauthScopes, base.oauth.scopes)],
           omitFieldsInWriteDtos |->
               IF IsDefined(p.omitFieldsInWriteDtos)
               THEN {p.omitFieldsInWriteDtos[1][i] :
                         i \in 1..Len(p.omitFieldsInWriteDtos[1])}
               ELSE base.omitFieldsInWriteDtos]
    IN  [merged EXCEPT !.controllersGlob = ensurePosix(@),
                       !.outFile = ensurePosix(@),
                       !.openapiOut = ensurePosix(@)]

(***************************************************************************)
(* The environment: command lines, datamodels, provider results, files.    *)
(***************************************************************************)
ArgLists ==
    { <<>>,
      <<aHelp>>,
      <<aH, aSchema, vAbsSchema>>,
      <<aSchema>>,
      <<aSchema, vAltSchema, aOauthScopes, vScopesObj>>,
      <<aOmitFields, vOmitCsv, aServiceTitle, vTitle>>,
      <<aOmitFields, vOmitNone>>,
      <<aOauthScopes, vScopesArr>>,
      <<aOauthScopes, vScopesBad, aSchema, vAltSchema>>,
      <<aControllersGlob, vWinGlob, aProjectRoot, vRoot>>,
      <<aServiceTitle, aServerUrl, vTitle, aServiceTitle, vGlob>>,
      <<aOauthScopes, vScopesNull>>,
      <<aOauthScopes, vScopesNum>>,
      <<aOauthScopes, vScopesStr>>,
      <<aOauthScopes, vScopesTrue>>,
      <<aOauthScopes, vScopesArr, aHelp>>,
      <<aOauthScopes, <<>>, aOutFile, vWinGlob, aOutFile, vGlob, aOauthTokenUrl>>,
      <<aOpenapiOut, vWinGlob, aSecuritySchemeName, vTitle, aOauthRefreshUrl, vGlob,
        aOauthTokenUrl, vTitle, aServerUrl, vGlob>> }

Field(n, k, t, r, l) ==
    [name |-> n, kind |-> k, type |-> t, isRequired |-> r, isList |-> l]

\* The example model of the specification: id, tag, owner.
FieldsBasic ==
    << Field(fId, "scalar", tString, TRUE, FALSE),
       Field(fTag, "enum", eStatus, FALSE, FALSE),
       Field(fOwner, "object", mUser, FALSE, FALSE) >>

\* Required and list relations, a list of enums, omitted names, a list of
\* scalars and a field of a kind the mapper does not know.
FieldsRich ==
    << Field(fId, "scalar", tInt, TRUE, FALSE),
       Field(fTitle, "scalar", tString, TRUE, FALSE),
       Field(fOwner, "object", mUser, TRUE, FALSE),
       Field(fPosts, "object", mBus, TRUE, TRUE),
       Field(fTags, "enum", eStatus, TRUE, TRUE),
       Field(fCreatedAt, "scalar", tDateTime, TRUE, FALSE),
       Field(fV, "scalar", tInt, FALSE, FALSE),
       Field(fPrice, "scalar", tDecimal, FALSE, TRUE),
       Field(fGeo, "unsupported", tJson, TRUE, TRUE) >>

\* Every scalar type, names outside the fixed set, an unsupported kind;
\* no field is required.
FieldsScalars ==
    << Field(fBig, "scalar", tBigInt, FALSE, FALSE),
       Field(fRatio, "scalar", tFloat, FALSE, FALSE),
       Field(fPrice, "scalar", tDecimal, FALSE, TRUE),
       Field(fMeta, "scalar", tJson, FALSE, FALSE),
       Field(fBlob, "scalar", tBytes, FALSE, TRUE),
       Field(fFlag, "scalar", tBoolean, FALSE, FALSE),
       Field(fCode, "scalar", tLowerString, FALSE, FALSE),
       Field(fLevel, "scalar", tUpperInt, FALSE, TRUE),
       Field(fKey, "scalar", tUuid, FALSE, FALSE),
       Field(fGeo, "unsupported", tJson, FALSE, TRUE),
       Field(fUpdatedAt, "unsupported", tDateTime, FALSE, FALSE) >>

Model(n, fields) == [name |-> n, fields |-> fields]

ModelPool ==
    { Model(mUser, FieldsBasic),
      Model(mUser, FieldsRich),
      Model(mTag, <<>>),
      Model(mStatus, FieldsScalars),
      Model(mBus, FieldsRich),
      Model(mBuse, FieldsBasic) }

\* Lists of models with pairwise distinct names.
ModelLists ==
    UNION { { s \in [1..n -> ModelPool] :
                  \A i, j \in 1..n : i # j => s[i].name # s[j].name } :
            n \in 0..MaxModels }

Enum(n, literals) ==
    [name |-> n, values |-> [i \in 1..Len(literals) |-> [name |-> literals[i]]]]

EnumLists ==
    { <<>>,
      << Enum(eRole, <<vAdmin>>), Enum(eStatus, <<vInactive, vActive>>),
         Enum(ePostalRequest, <<vAdmin>>) >>,
      << Enum(eGetBusResponse, <<vAdmin>>), Enum(eStatus, <<vActive>>) >> }

DataModels == { [models |-> m, enums |-> e] : m \in ModelLists, e \in EnumLists }

\* What the call of getDMMF gives: a datamodel, a rejection, or a value of
\* another shape.
ProviderResults ==
    { [shape |-> "ok", datamodel |-> d] : d \in DataModels }
    \cup { [shape |-> s] :
               s \in {"rejects", "null", "noDatamodel", "modelsMissing", "enumsMissing"} }

\* What globSync finds, with the separators of the platform.
GlobResults ==
    { <<>>, <<rFileA, rFileB>> }

\* A run that follows an earlier one on an unchanged project meets the same
\* schema file, hence the same datamodel, and the same files.
ProviderChoices ==
    IF IsDefined(first)
    THEN {[shape |-> "ok", datamodel |-> first[1].datamodel]}
    ELSE ProviderResults

GlobChoices == IF IsDefined(first) THEN {first[1].found} ELSE GlobResults

(***************************************************************************)
(* The run of index.ts.                                                    *)
(***************************************************************************)
Reject(message) ==
    /\ error' = Some(message)
    /\ pc' = "rejected"

\* run: const parsed = parseArgs(args)
ParseArgs ==
    /\ program = "index"
    /\ pc = "start"
    /\ LET r == parseArgs(args)
       IN  CASE r.outcome = "help" ->
                    /\ stdout' = Append(stdout, "usage")
                    /\ exitCode' = Some(0)
                    /\ pc' = "exited"
                    /\ UNCHANGED <<parsed, error>>
             [] r.outcome = "throw" ->
                    /\ Reject(r.message)
                    /\ UNCHANGED <<parsed, stdout, exitCode>>
             [] OTHER ->
                    /\ parsed' = Some(r.parsed)
                    /\ pc' = "parsed"
                    /\ UNCHANGED <<error, stdout, exitCode>>
    /\ UNCHANGED <<program, defaults, objects, calls, globbed, first, platform, args, cfg, resolvedSchemaPath, schemaFile,
                   dmmf, schemas, enumIdx, modelIdx, getSchema, postSchema,
                   putSchema, written, providerCalls>>

\* The base object after mergeConfig(base, parsed): lines 187-204 build the
\* result as a new object literal and lines 206-208 assign to that object;
\* base is only read.
mergeConfigBase(base, p) == base

\* run: const cfg = mergeConfig(DEFAULT_CONFIG, parsed)
MergeConfig ==
    /\ program = "index"
    /\ pc = "parsed"
    /\ cfg' = Some(mergeConfig(defaults, parsed[1]))
    /\ defaults' = mergeConfigBase(defaults, parsed[1])
    /\ pc' = "merged"
    /\ UNCHANGED <<program, objects, calls, globbed, first, platform, args, parsed, resolvedSchemaPath,
                   schemaFile, dmmf, schemas, enumIdx, modelIdx, getSchema,
                   postSchema, putSchema, written, error, exitCode, stdout,
                   providerCalls>>

\* Mutant of NotFoundMessage: the message holds the path as given, not as
\* resolved.
NotFoundMessageUnresolved(resolved) == msgNotFound \o sDefaultSchema

\* The messages of the errors thrown when the schema file is missing
\* (index.ts:219; part_000:244).
NotFoundMessage(resolved) == msgNotFound \o resolved

NotFoundMessageFixed(resolved) == msgNotFoundColon \o resolved

\* loadDmmfFromProject up to the call of getDMMF.  schemaFile is what the
\* file system holds at the resolved path; the module loader answers here:
\* @prisma/internals is missing, lacks getDMMF, or has it.
LoadDmmf ==
    /\ program = "index"
    /\ pc = "merged"
    /\ LET resolved == IF IsDefined(parsed[1].schemaPath)
                       THEN PathResolve(Cwd, parsed[1].schemaPath[1])
                       ELSE PathResolve(Cwd, sDefaultSchema)
       IN  /\ resolvedSchemaPath' = Some(resolved)
           /\ \E internals \in {"missing", "nofn", "ok"} :
                  CASE schemaFile = "none" ->
                           /\ Reject(NotFoundMessage(resolved))
                           /\ UNCHANGED providerCalls
                    [] schemaFile = "dir" ->
                           /\ Reject(msgEisdir)
                           /\ UNCHANGED providerCalls
                    [] schemaFile = "file" /\ internals = "missing" ->
                           /\ Reject(msgCannotFindModule)
                           /\ UNCHANGED providerCalls
                    [] schemaFile = "file" /\ internals = "nofn" ->
                           /\ Reject(msgNoGetDmmf)
                           /\ UNCHANGED providerCalls
                    [] OTHER ->
                           /\ providerCalls' = providerCalls + 1
                           /\ pc' = "awaiting"
                           /\ UNCHANGED error
    /\ UNCHANGED <<program, defaults, objects, calls, globbed, first, platform, args, parsed, cfg, schemaFile, dmmf,
                   schemas, enumIdx, modelIdx, getSchema, postSchema, putSchema,
                   written, exitCode, stdout>>

\* The awaited getDMMF settles; loadDmmfFromProject checks the shape.
ProviderReturns ==
    /\ program = "index"
    /\ pc = "awaiting"
    /\ \E r \in ProviderChoices :
          CASE r.shape = "rejects" ->
                   /\ Reject(msgProvider)
                   /\ UNCHANGED <<dmmf, schemas>>
            [] r.shape \in {"null", "noDatamodel", "modelsMissing", "enumsMissing"} ->
                   /\ Reject(msgBadShape)
                   /\ UNCHANGED <<dmmf, schemas>>
            [] OTHER ->
                   /\ dmmf' = Some(r.datamodel)
                   /\ schemas' = <<>>
                   /\ pc' = "build"
                   /\ UNCHANGED error
    /\ UNCHANGED <<program, defaults, objects, calls, globbed, first, platform, args, parsed, cfg, resolvedSchemaPath,
                   schemaFile, enumIdx, modelIdx, getSchema, postSchema,
                   putSchema, written, exitCode, stdout, providerCalls>>

(***************************************************************************)
(* Example synthesis (part_000).  A JavaScript value is a record tagged by *)
(* its type.                                                               *)
(***************************************************************************)
JsString(s) == [js |-> "string", str |-> s]

JsNumber(n) == [js |-> "number", num |-> n]

JsBoolean(b) == [js |-> "boolean", bool |-> b]

JsNull == [js |-> "null"]

JsObject(entries) == [js |-> "object", entries |-> entries]

JsArray(elems) == [js |-> "array", elems |-> elems]

\* The depth beyond which buildExampleFromSchema gives no example.
DepthCap == 2

listResponseSchemaWithExamples(itemRef) ==
    [type |-> "object",
     properties |-> <<
         <<pCount, [type |-> "number", example |-> JsNumber(3)]>>,
         <<pHasPreviousPage, [type |-> "boolean", example |-> JsBoolean(FALSE)]>>,
         <<pHasNextPage, [type |-> "boolean", example |-> JsBoolean(TRUE)]>>,
         <<pPageNumber, [type |-> "number", example |-> JsNumber(1)]>>,
         <<pPageSize, [type |-> "number", example |-> JsNumber(10)]>>,
         <<pTotalPages, [type |-> "number", example |-> JsNumber(1)]>>,
         <<pItems, [type |-> "array", items |-> [ref |-> itemRef]]>> >>,
     required |-> <<pCount, pHasPreviousPage, pHasNextPage, pPageNumber,
                    pPageSize, pTotalPages, pItems>>]

\* format is optional: <<>> or <<f>>.
exampleForScalarType(type, format) ==
    IF type = "string" /\ format = Some("date-time") THEN JsString(xEpoch)
    ELSE CASE type = "string"  -> JsString(tLowerString)
           [] type = "integer" -> JsNumber(0)
           [] type = "number"  -> JsNumber(0)
           [] type = "boolean" -> JsBoolean(TRUE)
           [] type = "object"  -> JsObject(<<>>)
           [] OTHER            -> JsNull

\* Object.assign(target, source)
RECURSIVE ObjectAssign(_, _)
ObjectAssign(target, source) ==
    IF source = <<>> THEN target
    ELSE ObjectAssign(ObjSet(target, Head(source)[1], Head(source)[2]), Tail(source))

RECURSIVE buildExampleFromSchema(_, _, _)
RECURSIVE MergeAllOf(_, _, _, _)
RECURSIVE ExampleProperties(_, _, _, _)

\* The loop over schema.allOf: examples that are plain objects are merged.
MergeAllOf(parts, components, depth, merged) ==
    IF parts = <<>> THEN merged
    ELSE LET ex == buildExampleFromSchema(Head(parts), components, depth + 1)
         IN  MergeAllOf(Tail(parts), components, depth,
                 IF IsDefined(ex) /\ ex[1].js = "object"
                 THEN ObjectAssign(merged, ex[1].entries)
                 ELSE merged)

\* The loop over Object.entries(schema.properties).
ExampleProperties(props, components, depth, obj) ==
    IF props = <<>> THEN obj
    ELSE LET ex == buildExampleFromSchema(Head(props)[2], components, depth + 1)
         IN  ExampleProperties(Tail(props), components, depth,
                 IF IsDefined(ex) THEN ObjSet(obj, Head(props)[1], ex[1]) ELSE obj)

\* Gives the example, or Undefined.
buildExampleFromSchema(schema, components, depth) ==
    IF depth > DepthCap THEN Undefined
    ELSE IF "ref" \in DOMAIN schema /\ schema.ref # <<>>
    THEN LET segments == Split(schema.ref, "/")
             name == segments[Len(segments)]
         IN  IF ~ObjHas(components, name) THEN Undefined
             ELSE buildExampleFromSchema(ObjGet(components, name), components,
                                         depth + 1)
    ELSE IF "allOf" \in DOMAIN schema /\ Len(schema.allOf) > 0
    THEN LET merged == MergeAllOf(schema.allOf, components, depth, <<>>)
         IN  IF Len(merged) > 0 THEN Some(JsObject(merged)) ELSE Undefined
    ELSE IF "type" \in DOMAIN schema /\ schema.type = "array"
            /\ "items" \in DOMAIN schema
    THEN LET item == buildExampleFromSchema(schema.items, components, depth + 1)
         IN  Some(JsArray(item))
    ELSE IF "type" \in DOMAIN schema /\ schema.type = "object"
            /\ "properties" \in DOMAIN schema
    THEN Some(JsObject(ExampleProperties(schema.properties, components, depth, <<>>)))
    ELSE IF "enum" \in DOMAIN schema /\ Len(schema.enum) > 0
    THEN Some(JsString(schema.enum[1]))
    ELSE IF "type" \in DOMAIN schema
    THEN Some(exampleForScalarType(schema.type,
                  IF "format" \in DOMAIN schema THEN Some(schema.format)
                  ELSE Undefined))
    ELSE Undefined

attachExample(schema, components) ==
    LET s == JsonClone(schema)
    IN  IF "example" \notin DOMAIN s
        THEN LET ex == buildExampleFromSchema(s, components, 0)
             IN  IF IsDefined(ex)
                 THEN [k \in DOMAIN s \cup {"example"} |->
                          IF k = "example" THEN ex[1] ELSE s[k]]
                 ELSE s
        ELSE s

\* The fixed auxiliary schemas (part_000:301-338).
ExceptionResponseSchema ==
    [type |-> "object",
     properties |-> <<
         <<pDetail, [type |-> "string"]>>,
         <<pErrors, [type |-> "array", items |-> [type |-> "string"]]>>,
         <<pStatus, [type |-> "number"]>>,
         <<pTitle, [type |-> "string"]>>,
         <<pType, [type |-> "string"]>> >>,
     required |-> <<pStatus, pTitle, pType>>]

ErrorSchema(status, title, type) ==
    [allOf |-> << [ref |-> sRefPrefixPlain \o sExceptionResponse] >>,
     example |-> JsObject(<< <<pStatus, JsNumber(status)>>,
                             <<pTitle, JsString(title)>>,
                             <<pType, JsString(type)>> >>)]

AddAuxiliarySchemas(collection) ==
    ObjSet(ObjSet(ObjSet(ObjSet(collection,
        sExceptionResponse, ExceptionResponseSchema),
        sBadRequestResponse, ErrorSchema(400, xBadRequestTitle, xBadRequestType)),
        sNotFoundResponse, ErrorSchema(404, xNotFoundTitle, xNotFoundType)),
        sInternalErrorResponse, ErrorSchema(500, xInternalTitle, xInternalType))

\* for (const name of Object.keys(schemas)) ...: the keys are those present
\* when the loop starts; each attachExample reads the collection as it is then.
RECURSIVE AttachExamples(_, _)
AttachExamples(names, collection) ==
    IF names = <<>> THEN collection
    ELSE LET name == Head(names)
             c1 == IF StartsWith(name, sPost) /\ EndsWith(name, sRequest)
                   THEN ObjSet(collection, name,
                               attachExample(ObjGet(collection, name), collection))
                   ELSE collection
             c2 == IF StartsWith(name, sPut) /\ EndsWith(name, sRequest)
                   THEN ObjSet(c1, name, attachExample(ObjGet(c1, name), c1))
                   ELSE c1
         IN  AttachExamples(Tail(names), c2)



(***************************************************************************)
(* buildExampleFromSchema call by call.  A frame is one call: its schema,  *)
(* its depth, the branch it took (kind), what is left of the loop it runs  *)
(* (todo), what the loop has built (acc) and the value the call it made    *)
(* last returned (got).  log records what each call did at which depth.    *)
(***************************************************************************)
Frame(schema, depth) ==
    [schema |-> schema, depth |-> depth, kind |-> "new", todo |-> <<>>,
     acc |-> <<>>, got |-> Undefined]

Logged(depth, op, defined) == [depth |-> depth, op |-> op, defined |-> defined]

TopOf(e) == e.stack[Len(e.stack)]

\* return value: the frame is popped and the caller, if any, gets the value.
ReturnFrom(e, value) ==
    LET rest == SubSeq(e.stack, 1, Len(e.stack) - 1)
        log  == e.log \cup {Logged(TopOf(e).depth, "return", IsDefined(value))}
    IN  IF rest = <<>>
        THEN [e EXCEPT !.stack = <<>>, !.returned = Some(value), !.log = log]
        ELSE [e EXCEPT !.stack = [rest EXCEPT ![Len(rest)].got = Some(value)],
                       !.log = log]

\* A call of buildExampleFromSchema(child, components, depth + 1).
CallFrom(e, kind, todo, child) ==
    LET f == TopOf(e)
        caller == [f EXCEPT !.kind = kind, !.todo = todo]
    IN  [e EXCEPT !.stack = Append([e.stack EXCEPT ![Len(e.stack)] = caller],
                                   Frame(child, f.depth + 1)),
                  !.log = e.log \cup {Logged(f.depth, "descend", FALSE),
                                      Logged(f.depth + 1, "enter", FALSE)}]

\* Mutant of BeyondCap: no depth is beyond the cap.
BeyondCapNever(depth) == FALSE

\* if (depth > 2) return undefined   (part_000:193)
BeyondCap(depth) == depth > DepthCap

\* The body of buildExampleFromSchema up to its first call or its return
\* (part_000:193-229).
EnterCall ==
    /\ pc = "example"
    /\ calls.stack # <<>>
    /\ TopOf(calls).kind = "new"
    /\ LET f == TopOf(calls)
           schema == f.schema
       IN  calls' =
           IF BeyondCap(f.depth) THEN ReturnFrom(calls, Undefined)
           ELSE IF "ref" \in DOMAIN schema /\ schema.ref # <<>>
           THEN LET segments == Split(schema.ref, "/")
                    name == segments[Len(segments)]
                    looked == [calls EXCEPT
                                  !.log = @ \cup {Logged(f.depth, "lookup", FALSE)}]
                IN  IF ~ObjHas(calls.components, name)
                    THEN ReturnFrom(looked, Undefined)
                    ELSE CallFrom(looked, "ref", <<>>,
                                  ObjGet(calls.components, name))
           ELSE IF "allOf" \in DOMAIN schema /\ Len(schema.allOf) > 0
           THEN CallFrom(calls, "allOf", schema.allOf, Head(schema.allOf))
           ELSE IF "type" \in DOMAIN schema /\ schema.type = "array"
                   /\ "items" \in DOMAIN schema
           THEN CallFrom(calls, "array", <<>>, schema.items)
           ELSE IF "type" \in DOMAIN schema /\ schema.type = "object"
                   /\ "properties" \in DOMAIN schema
           THEN IF schema.properties = <<>>
                THEN ReturnFrom(calls, Some(JsObject(<<>>)))
                ELSE CallFrom(calls, "object", schema.properties,
                              Head(schema.properties)[2])
           ELSE IF "enum" \in DOMAIN schema /\ Len(schema.enum) > 0
           THEN ReturnFrom(calls, Some(JsString(schema.enum[1])))
           ELSE IF "type" \in DOMAIN schema
           THEN ReturnFrom(calls, Some(exampleForScalarType(schema.type,
                                  IF "format" \in DOMAIN schema
                                  THEN Some(schema.format) ELSE Undefined)))
           ELSE ReturnFrom(calls, Undefined)
    /\ UNCHANGED <<program, defaults, objects, platform, args, pc, parsed, cfg, resolvedSchemaPath,
                   schemaFile, dmmf, schemas, enumIdx, modelIdx, getSchema,
                   postSchema, putSchema, written, error, exitCode, stdout,
                   providerCalls, first, globbed>>

\* A call made by the frame on top has returned: the frame goes on from
\* there (part_000:199, 205-208, 212-213, 219-222).
ResumeCall ==
    /\ pc = "example"
    /\ calls.stack # <<>>
    /\ TopOf(calls).kind # "new"
    /\ IsDefined(TopOf(calls).got)
    /\ LET f == TopOf(calls)
           value == f.got[1]
           With(acc) ==
               \* the loop goes to its next element, or ends
               LET rest == Tail(f.todo)
                   next == [f EXCEPT !.acc = acc, !.todo = rest, !.got = Undefined]
                   e == [calls EXCEPT !.stack[Len(calls.stack)] = next]
               IN  IF rest # <<>>
                   THEN CallFrom(e, f.kind, rest,
                                 IF f.kind = "object" THEN Head(rest)[2]
                                 ELSE Head(rest))
                   ELSE IF f.kind = "object" THEN ReturnFrom(e, Some(JsObject(acc)))
                   ELSE IF Len(acc) > 0 THEN ReturnFrom(e, Some(JsObject(acc)))
                   ELSE ReturnFrom(e, Undefined)
       IN  calls' =
           CASE f.kind = "ref"   -> ReturnFrom(calls, value)
             [] f.kind = "array" -> ReturnFrom(calls, Some(JsArray(value)))
             [] f.kind = "allOf" ->
                    With(IF IsDefined(value) /\ value[1].js = "object"
                         THEN ObjectAssign(f.acc, value[1].entries)
                         ELSE f.acc)
             [] f.kind = "object" ->
                    With(IF IsDefined(value)
                         THEN ObjSet(f.acc, Head(f.todo)[1], value[1])
                         ELSE f.acc)
    /\ UNCHANGED <<program, defaults, objects, platform, args, pc, parsed, cfg, resolvedSchemaPath,
                   schemaFile, dmmf, schemas, enumIdx, modelIdx, getSchema,
                   postSchema, putSchema, written, error, exitCode, stdout,
                   providerCalls, first, globbed>>

(***************************************************************************)
(* The build of the schema collection (both programs).                     *)
(***************************************************************************)
\* The omit-set the build passes to stripWriteFields
\* (index.ts:356 cfg.omitFieldsInWriteDtos; part_000:292 CONFIG...).
CONFIG ==
    [projectRoot |-> Cwd,
     controllersGlob |-> cControllersGlob,
     outFile |-> dOutFile,
     openapiOut |-> cOpenapiOut,
     serviceTitle |-> cServiceTitle,
     serverUrl |-> cServerUrl,
     securitySchemeName |-> dSecuritySchemeName,
     oauth |-> [tokenUrl |-> cTokenUrl,
                refreshUrl |-> cRefreshUrl,
                scopes |-> << <<dOpenid, cOpenidScope>> >>],
     omitFieldsInWriteDtos |-> {fId, fCreatedAt, fUpdatedAt, fV}]

Settings == IF program = "index" THEN cfg[1] ELSE CONFIG

(***************************************************************************)
(* The objects behind the schemas of index.ts.  A schema value is a tree   *)
(* of JavaScript objects: the schema object, its properties object, the    *)
(* schema objects of the properties, an items schema, the required and     *)
(* enum arrays.  heap[a] is the object at address a, with every field that *)
(* holds an object replaced by that object's address; strings are values.  *)
(***************************************************************************)
RECURSIVE Size(_)
RECURSIVE SizeOfProperties(_)

\* The number of objects of a schema value.
Size(v) ==
    1 + (IF "properties" \in DOMAIN v THEN 1 + SizeOfProperties(v.properties) ELSE 0)
      + (IF "items" \in DOMAIN v THEN Size(v.items) ELSE 0)
      + (IF "required" \in DOMAIN v THEN 1 ELSE 0)
      + (IF "enum" \in DOMAIN v THEN 1 ELSE 0)

SizeOfProperties(props) ==
    IF props = <<>> THEN 0
    ELSE Size(Head(props)[2]) + SizeOfProperties(Tail(props))

RECURSIVE Cells(_, _)
RECURSIVE CellsOfProperties(_, _)
RECURSIVE PropertyAddresses(_, _)

\* The entries of a properties object whose first property schema is at a.
PropertyAddresses(props, a) ==
    IF props = <<>> THEN <<>>
    ELSE << <<Head(props)[1], a>> >>
             \o PropertyAddresses(Tail(props), a + Size(Head(props)[2]))

CellsOfProperties(props, a) ==
    IF props = <<>> THEN <<>>
    ELSE Cells(Head(props)[2], a)
             \o CellsOfProperties(Tail(props), a + Size(Head(props)[2]))

\* The objects of an object literal with value v, the first one at address a:
\* every object of a literal is a new one.
Cells(v, a) ==
    LET hasProps == "properties" \in DOMAIN v
        hasItems == "items" \in DOMAIN v
        hasRequired == "required" \in DOMAIN v
        propsAt == a + 1
        itemsAt == a + 1 + (IF hasProps THEN 1 + SizeOfProperties(v.properties) ELSE 0)
        requiredAt == itemsAt + (IF hasItems THEN Size(v.items) ELSE 0)
        enumAt == requiredAt + (IF hasRequired THEN 1 ELSE 0)
    IN  << [k \in DOMAIN v |->
               CASE k = "properties" -> propsAt
                 [] k = "items"      -> itemsAt
                 [] k = "required"   -> requiredAt
                 [] k = "enum"       -> enumAt
                 [] OTHER            -> v[k]] >>
        \o (IF hasProps
            THEN << PropertyAddresses(v.properties, propsAt + 1) >>
                     \o CellsOfProperties(v.properties, propsAt + 1)
            ELSE <<>>)
        \o (IF hasItems THEN Cells(v.items, itemsAt) ELSE <<>>)
        \o (IF hasRequired THEN << v.required >> ELSE <<>>)
        \o (IF "enum" \in DOMAIN v THEN << v.enum >> ELSE <<>>)

\* An object literal is evaluated: its objects are put after the existing
\* ones.  Gives the new heap and the address of the schema object.
Allocate(h, v) == [heap |-> h \o Cells(v, Len(h) + 1), addr |-> Len(h) + 1]

\* The schema value seen from address a.
RECURSIVE Deref(_, _)
Deref(h, a) ==
    LET node == h[a]
    IN  [k \in DOMAIN node |->
            CASE k = "properties" ->
                     [i \in 1..Len(h[node.properties]) |->
                         <<h[node.properties][i][1],
                           Deref(h, h[node.properties][i][2])>>]
              [] k = "items"      -> Deref(h, node.items)
              [] k = "required"   -> h[node.required]
              [] k = "enum"       -> h[node.enum]
              [] OTHER            -> node[k]]

\* The addresses of the objects reached from the schema object at a.
RECURSIVE Reach(_, _)
Reach(h, a) ==
    LET node == h[a]
    IN  {a}
        \cup (IF "properties" \in DOMAIN node
              THEN {node.properties}
                   \cup UNION {Reach(h, h[node.properties][i][2]) :
                                  i \in 1..Len(h[node.properties])}
              ELSE {})
        \cup (IF "items" \in DOMAIN node THEN Reach(h, node.items) ELSE {})
        \cup (IF "required" \in DOMAIN node THEN {node.required} ELSE {})
        \cup (IF "enum" \in DOMAIN node THEN {node.enum} ELSE {})

\* JSON.parse(JSON.stringify(x)) on the object at a: the text of the value
\* seen from a is parsed into new objects.
JsonCloneAt(h, a) == Allocate(h, JsonClone(Deref(h, a)))

\* stripWriteFields on the object at getAddr (index.ts:300-316): the deletes
\* and the assignment of required act on the objects of the copy.
stripWriteFieldsAt(h, model, getAddr, omit) ==
    LET c == JsonCloneAt(h, getAddr)
        schema == c.heap[c.addr]
        relationFieldNames ==
            {model.fields[i].name :
                 i \in {j \in 1..Len(model.fields) : model.fields[j].kind = "object"}}
        Kept(k) == k \notin omit /\ k \notin relationFieldNames
    IN  IF "properties" \notin DOMAIN schema THEN c
        ELSE LET h1 == [c.heap EXCEPT ![schema.properties] =
                            SelectSeq(@, LAMBDA e : Kept(e[1]))]
             IN  IF "required" \notin DOMAIN schema THEN [heap |-> h1, addr |-> c.addr]
                 ELSE LET filtered == SelectSeq(h1[schema.required], Kept)
                      IN  IF filtered = <<>>
                          THEN [heap |-> [h1 EXCEPT ![c.addr] = RemoveKey(@, "required")],
                                addr |-> c.addr]
                          ELSE [heap |-> [Append(h1, filtered) EXCEPT
                                             ![c.addr].required = Len(h1) + 1],
                                addr |-> c.addr]

\* Mutant of makeAllOptionalAt: required is deleted from the schema object
\* that was passed in, which is returned.
makeAllOptionalInPlace(h, postAddr) ==
    [heap |-> [h EXCEPT ![postAddr] = RemoveKey(@, "required")], addr |-> postAddr]

\* makeAllOptional on the object at postAddr (index.ts:318-322).
makeAllOptionalAt(h, postAddr) ==
    LET c == JsonCloneAt(h, postAddr)
    IN  [heap |-> [c.heap EXCEPT ![c.addr] = RemoveKey(@, "required")],
         addr |-> c.addr]


\* for (const e of dmmf.datamodel.enums) schemas[e.name] = ...
BuildEnum ==
    /\ pc = "build"
    /\ enumIdx < Len(dmmf[1].enums)
    /\ LET e == dmmf[1].enums[enumIdx + 1]
       IN  schemas' = ObjSet(schemas, e.name,
                          [type |-> "string",
                           enum |-> [i \in 1..Len(e.values) |-> e.values[i].name]])
    /\ enumIdx' = enumIdx + 1
    /\ IF IsDefined(objects)
       THEN LET e == dmmf[1].enums[enumIdx + 1]
                made == Allocate(heap,
                            [type |-> "string",
                             enum |-> [i \in 1..Len(e.values) |-> e.values[i].name]])
            IN  objects' = Some([heap |-> made.heap,
                                 roots |-> ObjSet(roots, e.name, made.addr)])
       ELSE UNCHANGED objects
    /\ UNCHANGED <<program, defaults, calls, globbed, first, platform, args, pc, parsed, cfg, resolvedSchemaPath,
                   schemaFile, dmmf, modelIdx, getSchema, postSchema, putSchema,
                   written, error, exitCode, stdout, providerCalls>>

\* One iteration of for (const model of dmmf.datamodel.models).
BuildModel ==
    /\ pc = "build"
    /\ enumIdx = Len(dmmf[1].enums)
    /\ modelIdx < Len(dmmf[1].models)
    /\ LET model    == dmmf[1].models[modelIdx + 1]
           getName  == sGet \o model.name \o sResponse
           postName == sPost \o model.name \o sRequest
           putName  == sPut \o model.name \o sRequest
           listName == sList \o pluralize(model.name) \o sResponse
           g == modelToGetSchema(model, getRefName)
           p == stripWriteFields(model, g, Settings.omitFieldsInWriteDtos)
           u == makeAllOptional(p)
       IN  /\ getSchema' = Some(g)
           /\ postSchema' = Some(p)
           /\ putSchema' = Some(u)
           /\ schemas' =
                ObjSet(ObjSet(ObjSet(ObjSet(schemas, getName, g), postName, p),
                              putName, u),
                       listName,
                       IF program = "index"
                       THEN listResponseSchema(RefPrefix \o getName)
                       ELSE listResponseSchemaWithExamples(RefPrefix \o getName))
    /\ modelIdx' = modelIdx + 1
    /\ IF IsDefined(objects)
       THEN LET model == dmmf[1].models[modelIdx + 1]
                g == Allocate(heap, modelToGetSchema(model, getRefName))
                p == stripWriteFieldsAt(g.heap, model, g.addr,
                                        Settings.omitFieldsInWriteDtos)
                u == makeAllOptionalAt(p.heap, p.addr)
                l == Allocate(u.heap,
                         listResponseSchema(RefPrefix \o sGet \o model.name \o sResponse))
            IN  objects' = Some(
                    [heap  |-> l.heap,
                     roots |->
                         ObjSet(ObjSet(ObjSet(ObjSet(roots,
                             sGet \o model.name \o sResponse, g.addr),
                             sPost \o model.name \o sRequest, p.addr),
                             sPut \o model.name \o sRequest, u.addr),
                             sList \o pluralize(model.name) \o sResponse, l.addr)])
       ELSE UNCHANGED objects
    /\ UNCHANGED <<program, defaults, calls, globbed, first, platform, args, pc, parsed, cfg, resolvedSchemaPath,
                   schemaFile, dmmf, enumIdx, written, error, exitCode, stdout,
                   providerCalls>>

LoopsDone ==
    /\ pc = "build"
    /\ enumIdx = Len(dmmf[1].enums)
    /\ modelIdx = Len(dmmf[1].models)

\* buildSchemasFromPrismaDmmf returns the collection (index.ts:365).
BuildReturn ==
    /\ program = "index"
    /\ LoopsDone
    /\ pc' = "assembled"
    /\ UNCHANGED <<program, defaults, objects, calls, globbed, first, platform, args, parsed, cfg, resolvedSchemaPath,
                   schemaFile, dmmf, schemas, enumIdx, modelIdx, getSchema,
                   postSchema, putSchema, written, error, exitCode, stdout,
                   providerCalls>>

(***************************************************************************)
(* The generated script.                                                   *)
(***************************************************************************)
\* The docs object: an object whose components hold the collection under
\* schemaKey.  JSON.stringify(docs, null, 2) is a function of this value and
\* of its key order.
\* Mutant of Docs: the document carries a mark of the run that made it.
DocsStamped(c, schemaKey, collection) ==
    << <<kInfo, [title |-> c.serviceTitle, rerun |-> IsDefined(first)]>>,
       <<sComponents, << <<schemaKey, collection>> >> >> >>

Docs(c, schemaKey, collection) ==
    << <<kInfo, [title |-> c.serviceTitle]>>,
       <<kServers, << [url |-> c.serverUrl] >> >>,
       <<sComponents,
         ObjSet(<< <<schemaKey, collection>> >>,
                kSecuritySchemes,
                << <<c.securitySchemeName,
                     [type |-> "oauth2",
                      description |-> "This API uses OAuth2 with the password flow.",
                      flows |-> [password |-> [tokenUrl |-> c.oauth.tokenUrl,
                                               refreshUrl |-> c.oauth.refreshUrl,
                                               scopes |-> c.oauth.scopes]]]>> >>)>>,
       <<kSecurity, << << <<c.securitySchemeName, <<dOpenid>> >> >> >> >> >>

\* Mutant of Generate: the script is written as soon as the datamodel is
\* there, before the loops of the build have run.
GenerateBeforeBuild ==
    /\ program = "index"
    /\ pc = "build"
    /\ written' = Append(written,
                      [path |-> PathResolve(cfg[1].projectRoot, cfg[1].outFile),
                       content |-> [docs |-> Docs(cfg[1], sAtSchemas, schemas),
                                    routes |-> <<>>,
                                    openapiOut |-> ensurePosix(cfg[1].openapiOut),
                                    fixOpenApiFile |-> FALSE]])
    /\ globbed' = Some(<<>>)
    /\ pc' = "done"
    /\ UNCHANGED <<program, defaults, objects, calls, first, platform, args, parsed, cfg, resolvedSchemaPath,
                   schemaFile, dmmf, schemas, enumIdx, modelIdx, getSchema,
                   postSchema, putSchema, error, exitCode, stdout, providerCalls>>

\* generateSwaggerConfigJs of index.ts: globSync, the script text, the write.
Generate ==
    /\ program = "index"
    /\ pc = "assembled"
    /\ \E found \in GlobChoices :
          LET routes == [i \in 1..Len(found) |-> ensurePosix(found[i])]
              fileContent == [docs |-> Docs(cfg[1], sAtSchemas, schemas),
                              routes |-> routes,
                              openapiOut |-> ensurePosix(cfg[1].openapiOut),
                              fixOpenApiFile |-> FALSE]
              outPath == PathResolve(cfg[1].projectRoot, cfg[1].outFile)
          IN  /\ written' = Append(written,
                                    [path |-> outPath, content |-> fileContent])
              /\ globbed' = Some(found)
    /\ pc' = "done"
    /\ UNCHANGED <<program, defaults, objects, calls, first, platform, args, parsed, cfg, resolvedSchemaPath,
                   schemaFile, dmmf, schemas, enumIdx, modelIdx, getSchema,
                   postSchema, putSchema, error, exitCode, stdout, providerCalls>>


(***************************************************************************)
(* The run of part_000.                                                    *)
(***************************************************************************)
\* loadDmmfFromProject up to the call of getDMMF (part_000:241-269).
LoadDmmfFixed ==
    /\ program = "part000"
    /\ pc = "start"
    /\ LET resolved == PathResolve(Cwd, sDefaultSchema)
       IN  /\ resolvedSchemaPath' = Some(resolved)
           /\ \E runtime \in {"missing", "nofn", "ok"} :
                  CASE schemaFile = "none" ->
                           /\ Reject(NotFoundMessageFixed(resolved))
                           /\ UNCHANGED providerCalls
                    [] schemaFile = "dir" ->
                           /\ Reject(msgEisdir)
                           /\ UNCHANGED providerCalls
                    [] schemaFile = "file" /\ runtime = "missing" ->
                           /\ Reject(msgNoRuntime)
                           /\ UNCHANGED providerCalls
                    [] schemaFile = "file" /\ runtime = "nofn" ->
                           /\ Reject(msgNoGetDmmfRuntime)
                           /\ UNCHANGED providerCalls
                    [] OTHER ->
                           /\ providerCalls' = providerCalls + 1
                           /\ pc' = "awaiting"
                           /\ UNCHANGED error
    /\ UNCHANGED <<program, defaults, objects, calls, globbed, first, platform, args, parsed, cfg, schemaFile, dmmf,
                   schemas, enumIdx, modelIdx, getSchema, postSchema, putSchema,
                   written, exitCode, stdout>>

\* The awaited getDMMF settles; the check is !dmmf?.datamodel?.models; a
\* datamodel without enums passes it and the loop over the enums throws.
ProviderReturnsFixed ==
    /\ program = "part000"
    /\ pc = "awaiting"
    /\ \E r \in ProviderChoices :
          CASE r.shape = "rejects" ->
                   /\ Reject(msgProvider)
                   /\ UNCHANGED <<dmmf, schemas>>
            [] r.shape \in {"null", "noDatamodel", "modelsMissing"} ->
                   /\ Reject(msgFailedLoad)
                   /\ UNCHANGED <<dmmf, schemas>>
            [] r.shape = "enumsMissing" ->
                   /\ Reject(msgNotIterable)
                   /\ UNCHANGED <<dmmf, schemas>>
            [] OTHER ->
                   /\ dmmf' = Some(r.datamodel)
                   /\ schemas' = <<>>
                   /\ pc' = "build"
                   /\ UNCHANGED error
    /\ UNCHANGED <<program, defaults, objects, calls, globbed, first, platform, args, parsed, cfg, resolvedSchemaPath,
                   schemaFile, enumIdx, modelIdx, getSchema, postSchema,
                   putSchema, written, exitCode, stdout, providerCalls>>

\* The rest of buildSchemasFromDmmf after the two loops (part_000:301-345).
BuildReturnFixed ==
    /\ program = "part000"
    /\ LoopsDone
    /\ LET withAux == AddAuxiliarySchemas(schemas)
       IN  schemas' = AttachExamples(ObjKeys(withAux), withAux)
    /\ pc' = "assembled"
    /\ UNCHANGED <<program, defaults, objects, calls, globbed, first, platform, args, parsed, cfg, resolvedSchemaPath,
                   schemaFile, dmmf, enumIdx, modelIdx, getSchema, postSchema,
                   putSchema, written, error, exitCode, stdout, providerCalls>>

\* generateSwaggerConfigJs of part_000.
GenerateFixed ==
    /\ program = "part000"
    /\ pc = "assembled"
    /\ \E found \in GlobChoices :
          LET routes == [i \in 1..Len(found) |-> ensurePosix(found[i])]
              fileContent == [docs |-> Docs(CONFIG, sSchemas, schemas),
                              routes |-> routes,
                              openapiOut |-> ensurePosix(CONFIG.openapiOut),
                              fixOpenApiFile |-> TRUE]
              outPath == PathResolve(CONFIG.projectRoot, CONFIG.outFile)
          IN  /\ written' = Append(written,
                                    [path |-> outPath, content |-> fileContent])
              /\ globbed' = Some(found)
    /\ pc' = "done"
    /\ UNCHANGED <<program, defaults, objects, calls, first, platform, args, parsed, cfg, resolvedSchemaPath,
                   schemaFile, dmmf, schemas, enumIdx, modelIdx, getSchema,
                   postSchema, putSchema, error, exitCode, stdout, providerCalls>>

\* cli.ts: run(...).catch((e) => { console.error(e); process.exitCode = 1 })
CliCatch ==
    /\ pc = "rejected"
    /\ exitCode' = Some(1)
    /\ pc' = "failed"
    /\ UNCHANGED <<program, defaults, objects, calls, globbed, first, platform, args, parsed, cfg, resolvedSchemaPath,
                   schemaFile, dmmf, schemas, enumIdx, modelIdx, getSchema,
                   postSchema, putSchema, written, error, stdout, providerCalls>>

\* The command is started again, in a new process, on the project the first
\* run left: the arguments and the file system are the same, the output file
\* of the first run is there.
Rerun ==
    /\ pc = "done"
    /\ ~IsDefined(first)
    /\ first' = Some([datamodel |-> dmmf[1], found |-> globbed[1],
                      output |-> written[1]])
    /\ pc' = "start"
    /\ parsed' = Undefined
    /\ cfg' = Undefined
    /\ resolvedSchemaPath' = Undefined
    /\ dmmf' = Undefined
    /\ schemas' = <<>>
    /\ enumIdx' = 0
    /\ modelIdx' = 0
    /\ getSchema' = Undefined
    /\ postSchema' = Undefined
    /\ putSchema' = Undefined
    /\ written' = <<>>
    /\ error' = Undefined
    /\ exitCode' = Undefined
    /\ stdout' = <<>>
    /\ providerCalls' = 0
    /\ globbed' = Undefined
    /\ defaults' = (IF program = "index" THEN DEFAULT_CONFIG ELSE CONFIG)
    /\ UNCHANGED <<program, objects, calls, platform, args, schemaFile>>

(***************************************************************************)
(* Specification.                                                          *)
(***************************************************************************)
Init ==
    /\ program \in {"index", "part000"}
    /\ platform \in {"posix", "win32"}
    /\ args \in (IF program = "index" THEN ArgLists ELSE {<<>>, <<aHelp>>})
    /\ pc = "start"
    /\ parsed = Undefined
    /\ cfg = Undefined
    /\ resolvedSchemaPath = Undefined
    /\ schemaFile \in {"none", "file", "dir"}
    /\ dmmf = Undefined
    /\ schemas = <<>>
    /\ enumIdx = 0
    /\ modelIdx = 0
    /\ getSchema = Undefined
    /\ postSchema = Undefined
    /\ putSchema = Undefined
    /\ written = <<>>
    /\ error = Undefined
    /\ exitCode = Undefined
    /\ stdout = <<>>
    /\ providerCalls = 0
    /\ first = Undefined
    /\ globbed = Undefined
    /\ calls = Undefined
    /\ objects = Undefined
    /\ defaults = IF program = "index" THEN DEFAULT_CONFIG ELSE CONFIG

Next ==
    \/ ParseArgs
    \/ MergeConfig
    \/ LoadDmmf
    \/ ProviderReturns
    \/ BuildEnum
    \/ BuildModel
    \/ BuildReturn
    \/ Generate
    \/ LoadDmmfFixed
    \/ ProviderReturnsFixed
    \/ BuildReturnFixed
    \/ GenerateFixed
    \/ CliCatch

Spec == Init /\ [][Next]_vars

\* The collections buildExampleFromSchema is evaluated on: a schema that
\* refers to itself through a property, two schemas that refer to each other
\* (one through an array), an allOf that names its own schema, and a
\* collection as the build leaves it, with an enum, a list of enums, a list of
\* scalars, a date, a reference to nothing and the error schemas.
RefTo(name) == [ref |-> sRefPrefixPlain \o name]

ExampleCollections ==
    { << <<mUser, [type |-> "object",
                   properties |-> << <<fOwner, RefTo(mUser)>>,
                                     <<fId, [type |-> "integer"]>> >>]>> >>,
      << <<mBus, [type |-> "object",
                  properties |-> << <<fOwner, RefTo(mBuse)>> >>]>>,
         <<mBuse, [type |-> "array", items |-> RefTo(mBus)]>> >>,
      << <<mTag, [allOf |-> << RefTo(mTag),
                               [type |-> "object",
                                properties |->
                                    << <<fTitle, [type |-> "string"]>> >>] >>]>> >>,
      << <<eStatus, [type |-> "string", enum |-> <<vActive, vInactive>>]>>,
         <<sPost \o mTag \o sRequest,
           [type |-> "object",
            properties |->
                << <<fTag, RefTo(eStatus)>>,
                   <<fTags, [type |-> "array", items |-> RefTo(eStatus)]>>,
                   <<fFlag, [type |-> "array", items |-> [type |-> "boolean"]]>>,
                   <<fCreatedAt, [type |-> "string", format |-> "date-time"]>>,
                   <<fOwner, RefTo(mUser)>> >>,
            required |-> <<fTag>>]>>,
         <<sExceptionResponse, ExceptionResponseSchema>>,
         <<sNotFoundResponse, [allOf |-> <<RefTo(sExceptionResponse)>>]>> >> }

\* The call attachExample makes: a schema of the collection, or a reference
\* to one, at depth 0.
ExampleInputs ==
    UNION { { [components |-> c, root |-> r] :
                r \in {c[i][2] : i \in 1..Len(c)}
                      \cup {RefTo(c[i][1]) : i \in 1..Len(c)} } :
            c \in ExampleCollections }

InitExample ==
    /\ program = "part000"
    /\ platform = "posix"
    /\ args = <<>>
    /\ pc = "example"
    /\ parsed = Undefined
    /\ cfg = Undefined
    /\ resolvedSchemaPath = Undefined
    /\ schemaFile = "file"
    /\ dmmf = Undefined
    /\ schemas = <<>>
    /\ enumIdx = 0
    /\ modelIdx = 0
    /\ getSchema = Undefined
    /\ postSchema = Undefined
    /\ putSchema = Undefined
    /\ written = <<>>
    /\ error = Undefined
    /\ exitCode = Undefined
    /\ stdout = <<>>
    /\ providerCalls = 0
    /\ first = Undefined
    /\ globbed = Undefined
    /\ \E input \in ExampleInputs :
           calls = [components |-> input.components,
                    root |-> input.root,
                    stack |-> <<Frame(input.root, 0)>>,
                    returned |-> Undefined,
                    log |-> {Logged(0, "enter", FALSE)}]
    /\ objects = Undefined
    /\ defaults = CONFIG

NextExample == EnterCall \/ ResumeCall

\* A call that can take a step takes it: the evaluation is sequential code.
SpecExample == InitExample /\ [][NextExample]_vars /\ WF_vars(NextExample)

\* Two runs in a row: the command lines of the second specification.
TwiceArgLists == { <<>>, <<aControllersGlob, vWinGlob, aProjectRoot, vRoot>> }

InitTwice ==
    /\ Init
    /\ args \in TwiceArgLists
    /\ schemaFile = "file"

NextTwice == Next \/ Rerun

SpecTwice == InitTwice /\ [][NextTwice]_vars

\* The runs of index.ts with the objects of the build followed.
ObjectsArgLists == { <<>>, <<aOmitFields, vOmitCsv>>, <<aOmitFields, vOmitNone>> }

InitObjects ==
    /\ program = "index"
    /\ platform = "posix"
    /\ args \in ObjectsArgLists
    /\ pc = "start"
    /\ parsed = Undefined
    /\ cfg = Undefined
    /\ resolvedSchemaPath = Undefined
    /\ schemaFile \in {"none", "file"}
    /\ dmmf = Undefined
    /\ schemas = <<>>
    /\ enumIdx = 0
    /\ modelIdx = 0
    /\ getSchema = Undefined
    /\ postSchema = Undefined
    /\ putSchema = Undefined
    /\ written = <<>>
    /\ error = Undefined
    /\ exitCode = Undefined
    /\ stdout = <<>>
    /\ providerCalls = 0
    /\ first = Undefined
    /\ globbed = Undefined
    /\ calls = Undefined
    /\ objects = Some([heap |-> <<>>, roots |-> <<>>])
    /\ defaults = DEFAULT_CONFIG

NextObjects ==
    \/ ParseArgs
    \/ MergeConfig
    \/ LoadDmmf
    \/ ProviderReturns
    \/ BuildEnum
    \/ BuildModel
    \/ BuildReturn
    \/ Generate
    \/ CliCatch

SpecObjects == InitObjects /\ [][NextObjects]_vars

(***************************************************************************)
(* Properties.                                                             *)
(***************************************************************************)
\* Every $ref string that occurs in a schema: its own, those of its
\* properties, of its items and of its allOf parts.
RECURSIVE RefsOf(_)
RefsOf(s) ==
    (IF "ref" \in DOMAIN s THEN {s.ref} ELSE {})
    \cup (IF "properties" \in DOMAIN s
          THEN UNION {RefsOf(s.properties[i][2]) : i \in 1..Len(s.properties)}
          ELSE {})
    \cup (IF "items" \in DOMAIN s THEN RefsOf(s.items) ELSE {})
    \cup (IF "allOf" \in DOMAIN s
          THEN UNION {RefsOf(s.allOf[i]) : i \in 1..Len(s.allOf)}
          ELSE {})

\* The reference, read as a path into the docs object, leads to the
\* collection and its last segment is a key of the collection.
RefResolves(docs, collection, ref) ==
    LET segs == Split(ref, "/")
    IN  /\ Len(segs) = 4
        /\ segs[1] = sHash
        /\ ObjHas(docs, segs[2])
        /\ ObjHas(ObjGet(docs, segs[2]), segs[3])
        /\ ObjGet(ObjGet(docs, segs[2]), segs[3]) = collection
        /\ ObjHas(collection, segs[4])

\* Every enum field names a declared enum, every relation field a declared
\* model.
WellReferenced(dm) ==
    \A i \in 1..Len(dm.models) : \A j \in 1..Len(dm.models[i].fields) :
        LET f == dm.models[i].fields[j]
        IN  /\ f.kind = "enum" => \E e \in 1..Len(dm.enums) : dm.enums[e].name = f.type
            /\ f.kind = "object" =>
                   \E m \in 1..Len(dm.models) : dm.models[m].name = f.type

HasFieldOfKind(dm, kind) ==
    \E i \in 1..Len(dm.models) : \E j \in 1..Len(dm.models[i].fields) :
        dm.models[i].fields[j].kind = kind

\* The model whose iteration of the loop ran last, and its relation names.
LastModel == dmmf[1].models[modelIdx]

RelationNames(model) ==
    {model.fields[j].name : j \in {k \in 1..Len(model.fields) :
                                       model.fields[k].kind = "object"}}

RequiredOf(schema) == IF "required" \in DOMAIN schema THEN schema.required ELSE <<>>

\* C1: once the script is written for a datamodel whose enum and relation
\* fields name declared enums and models, every $ref of the collection leads,
\* through the docs object, to a key of that collection.
C1_RefsResolve ==
    (pc = "done" /\ WellReferenced(dmmf[1])) =>
        \A i \in 1..Len(schemas) : \A r \in RefsOf(schemas[i][2]) :
            RefResolves(written[1].content.docs, schemas, r)

C1_Witness ==
    /\ pc = "done"
    /\ program = "index"
    /\ WellReferenced(dmmf[1])
    /\ HasFieldOfKind(dmmf[1], "enum")
    /\ HasFieldOfKind(dmmf[1], "object")
    /\ \E i \in 1..Len(dmmf[1].models) : \E j \in 1..Len(dmmf[1].models[i].fields) :
           dmmf[1].models[i].fields[j].isList
           /\ dmmf[1].models[i].fields[j].kind = "object"

\* C2: the write schema has exactly the properties of the read schema whose
\* name is neither omitted nor a relation name, with the same fragments; its
\* required list is the read schema's, filtered the same way in the same
\* order, and is absent when that leaves nothing.
C2_WriteSchema ==
    IsDefined(postSchema) =>
        LET g == getSchema[1]
            p == postSchema[1]
            omit == Settings.omitFieldsInWriteDtos
            Kept(k) == k \notin omit /\ k \notin RelationNames(LastModel)
            keptRequired == SelectSeq(RequiredOf(g), Kept)
        IN  /\ \A i \in 1..Len(g.properties) :
                   Kept(g.properties[i][1]) =>
                       /\ ObjHas(p.properties, g.properties[i][1])
                       /\ ObjGet(p.properties, g.properties[i][1]) = g.properties[i][2]
            /\ \A i \in 1..Len(p.properties) :
                   /\ Kept(p.properties[i][1])
                   /\ ObjHas(g.properties, p.properties[i][1])
                   /\ \A j \in 1..Len(p.properties) :
                          p.properties[j][1] = p.properties[i][1] => j = i
            /\ IF keptRequired = <<>>
               THEN "required" \notin DOMAIN p
               ELSE "required" \in DOMAIN p /\ p.required = keptRequired

\* A required relation and a required omitted name are removed, and other
\* required names remain.
C2_Witness ==
    /\ IsDefined(postSchema)
    /\ \E k \in RelationNames(LastModel) :
           \E i \in 1..Len(RequiredOf(getSchema[1])) : getSchema[1].required[i] = k
    /\ \E k \in Settings.omitFieldsInWriteDtos :
           \E i \in 1..Len(RequiredOf(getSchema[1])) : getSchema[1].required[i] = k
    /\ Len(RequiredOf(postSchema[1])) >= 2

\* C3: the read schema is an object with one property per field, its
\* required list holds the names of the required fields in declaration
\* order, and is absent when no field is required.
C3_ReadSchema ==
    IsDefined(getSchema) =>
        LET g == getSchema[1]
            fields == LastModel.fields
            requiredFields == SelectSeq(fields, LAMBDA f : f.isRequired)
        IN  /\ g.type = "object"
            /\ Len(g.properties) = Len(fields)
            /\ \A i \in 1..Len(fields) : g.properties[i][1] = fields[i].name
            /\ IF requiredFields = <<>>
               THEN "required" \notin DOMAIN g
               ELSE /\ "required" \in DOMAIN g
                    /\ g.required = [i \in 1..Len(requiredFields) |->
                                        requiredFields[i].name]

\* A model with fields none of which is required.
C3_Witness ==
    /\ IsDefined(getSchema)
    /\ Len(LastModel.fields) > 1
    /\ \A i \in 1..Len(LastModel.fields) : ~LastModel.fields[i].isRequired
    /\ "required" \notin DOMAIN getSchema[1]

\* C4: for every model stored, the update schema of the collection has no
\* required key and the properties of the write schema of the collection.
C4_UpdateSchema ==
    IsDefined(dmmf) =>
        \A i \in 1..modelIdx :
            LET name == dmmf[1].models[i].name
                post == ObjGet(schemas, sPost \o name \o sRequest)
                put  == ObjGet(schemas, sPut \o name \o sRequest)
            IN  /\ "required" \notin DOMAIN put
                /\ put.properties = post.properties

\* The write schema has a required list and the update schema has none.
C4_Witness ==
    /\ pc = "assembled"
    /\ modelIdx = 2
    /\ \E i \in 1..modelIdx :
           LET name == dmmf[1].models[i].name
           IN  /\ "required" \in DOMAIN ObjGet(schemas, sPost \o name \o sRequest)
               /\ Len(ObjGet(schemas, sPut \o name \o sRequest).properties) >= 2

\* C5 (as stated, for the model stored last): the list schema the collection
\* holds for it has the seven properties, all required, and its items refer
\* to '#/components/schemas/Get<Model>Response'.
ListProperties ==
    {pCount, pPageNumber, pPageSize, pTotalPages, pHasPreviousPage, pHasNextPage,
     pItems}

C5_ListSchema ==
    IsDefined(getSchema) =>
            LET name == LastModel.name
                list == ObjGet(schemas, sList \o pluralize(name) \o sResponse)
            IN  /\ {list.properties[k][1] : k \in 1..Len(list.properties)}
                       = ListProperties
                /\ Len(list.properties) = 7
                /\ {list.required[k] : k \in 1..Len(list.required)} = ListProperties
                /\ ObjGet(list.properties, pItems).items.ref
                       = sRefPrefixPlain \o sGet \o name \o sResponse

\* C6 (as stated): the collection holds, for every model M, the keys
\* Get<M>Response, Post<M>Request, Put<M>Request and List<P>Response, P being
\* M with "es" appended when M ends in "s" and with "s" appended otherwise,
\* and under them the read, write, update and list schema of M.  (A stored
\* request schema is compared without the example part_000 attaches to it.)
WithoutExample(s) == RemoveKey(s, "example")

C6_NamedSchemas ==
    pc \in {"assembled", "done"} =>
        \A i \in 1..Len(dmmf[1].models) :
            LET m == dmmf[1].models[i]
                plural == IF m.name[Len(m.name)] = "s"
                          THEN m.name \o <<"e", "s">>
                          ELSE m.name \o <<"s">>
                getName  == sGet \o m.name \o sResponse
                postName == sPost \o m.name \o sRequest
                putName  == sPut \o m.name \o sRequest
                listName == sList \o plural \o sResponse
                read   == modelToGetSchema(m, getRefName)
                write  == stripWriteFields(m, read, Settings.omitFieldsInWriteDtos)
                update == makeAllOptional(write)
                list   == IF program = "index"
                          THEN listResponseSchema(RefPrefix \o getName)
                          ELSE listResponseSchemaWithExamples(RefPrefix \o getName)
            IN  /\ ObjHas(schemas, getName) /\ ObjGet(schemas, getName) = read
                /\ ObjHas(schemas, postName)
                /\ WithoutExample(ObjGet(schemas, postName)) = write
                /\ ObjHas(schemas, putName)
                /\ WithoutExample(ObjGet(schemas, putName)) = update
                /\ ObjHas(schemas, listName) /\ ObjGet(schemas, listName) = list

\* C7: the fragment of a field is decided by its kind and its list flag: the
\* scalar fragment of the type, a $ref to the enum's schema, a $ref to
\* Get<RelatedModel>Response; wrapped in an array for a list field of these
\* three kinds; {type: 'object'} for a field of any other kind.
C7_FieldSchema ==
    IsDefined(getSchema) =>
        \A i \in 1..Len(LastModel.fields) :
            LET f == LastModel.fields[i]
                base == CASE f.kind = "scalar" -> scalarToSchema(f.type)
                          [] f.kind = "enum" -> [ref |-> RefPrefix \o f.type]
                          [] f.kind = "object" ->
                                 [ref |-> RefPrefix \o sGet \o f.type \o sResponse]
                          [] OTHER -> [type |-> "object"]
            IN  ObjGet(getSchema[1].properties, f.name) =
                    IF f.kind \in {"scalar", "enum", "object"} /\ f.isList
                    THEN [type |-> "array", items |-> base]
                    ELSE base

\* A model with a list and a single field of each kind that has them, and a
\* list field of another kind.
C7_Witness ==
    /\ IsDefined(getSchema)
    /\ \A kind \in {"scalar", "enum", "object", "unsupported"} :
           \E i \in 1..Len(LastModel.fields) :
               LastModel.fields[i].kind = kind /\ LastModel.fields[i].isList
    /\ \A kind \in {"scalar", "object"} :
           \E i \in 1..Len(LastModel.fields) :
               LastModel.fields[i].kind = kind /\ ~LastModel.fields[i].isList

\* C8: scalarToSchema gives the documented fragment for each of the nine
\* names and {type: 'string'} for every other name.
DocumentedScalars ==
    << <<tString, [type |-> "string"]>>,
       <<tBoolean, [type |-> "boolean"]>>,
       <<tInt, [type |-> "integer"]>>,
       <<tBigInt, [type |-> "integer", format |-> "int64"]>>,
       <<tFloat, [type |-> "number"]>>,
       <<tDecimal, [type |-> "number"]>>,
       <<tDateTime, [type |-> "string", format |-> "date-time"]>>,
       <<tJson, [type |-> "object"]>>,
       <<tBytes, [type |-> "string", format |-> "byte"]>> >>

C8_ScalarToSchema ==
    IsDefined(getSchema) =>
        \A i \in 1..Len(LastModel.fields) :
            LET f == LastModel.fields[i]
                fragment == ObjGet(getSchema[1].properties, f.name)
                scalar == IF f.isList THEN fragment.items ELSE fragment
            IN  f.kind = "scalar" =>
                    scalar = IF ObjHas(DocumentedScalars, f.type)
                             THEN ObjGet(DocumentedScalars, f.type)
                             ELSE [type |-> "string"]

\* A model with scalar fields of documented types, of a type differing from
\* one of them in case only, and of an unknown type.
C8_Witness ==
    /\ IsDefined(getSchema)
    /\ \A t \in {tBigInt, tBytes, tJson, tLowerString, tUpperInt, tUuid} :
           \E i \in 1..Len(LastModel.fields) :
               LastModel.fields[i].kind = "scalar" /\ LastModel.fields[i].type = t

\* C9: the output file is written at most once, and only when the arguments
\* were parsed, the schema file was read, the provider was called and gave a
\* datamodel and all schemas were derived; a run that failed or exited has
\* written nothing.
C9_WriteOnceAtEnd ==
    /\ Len(written) <= 1
    /\ Len(written) = 1 =>
           /\ pc = "done"
           /\ ~IsDefined(error)
           /\ program = "index" => IsDefined(parsed) /\ IsDefined(cfg)
           /\ schemaFile = "file"
           /\ providerCalls = 1
           /\ IsDefined(dmmf)
           /\ enumIdx = Len(dmmf[1].enums)
           /\ modelIdx = Len(dmmf[1].models)
           /\ \A i \in 1..Len(dmmf[1].models) :
                  ObjHas(schemas, sPut \o dmmf[1].models[i].name \o sRequest)
           /\ \E k \in {sAtSchemas, sSchemas} :
                  LET components == ObjGet(written[1].content.docs, sComponents)
                  IN  ObjHas(components, k) /\ ObjGet(components, k) = schemas
    /\ pc \in {"rejected", "failed", "exited"} => written = <<>>

\* A run that failed after the provider was called wrote nothing.
C9_Witness ==
    /\ pc = "failed"
    /\ providerCalls = 1
    /\ written = <<>>

\* C10 (as stated): with no --schema flag and no file at the resolved default
\* path, the run fails with an error that holds the resolved path, the
\* provider is not called and the exit code is 1.
ExpectedDefaultPath == IF platform = "posix" THEN xDefaultPosix ELSE xDefaultWin

NoSchemaFlag == \A i \in 1..Len(args) : args[i] # aSchema

RunEnded == pc \in {"done", "failed", "exited"}

FailedOnMissingFile ==
    /\ pc = "failed"
    /\ IsDefined(error)
    /\ Includes(error[1], ExpectedDefaultPath)
    /\ exitCode = Some(1)
    /\ providerCalls = 0

C10_AsStated ==
    (NoSchemaFlag /\ schemaFile = "none" /\ RunEnded) => FailedOnMissingFile

\* C10 (amended): the same when, in addition, the arguments ask for no help
\* and hold no invalid --oauthScopes value; then the provider is never called
\* and the run ends only by failing on the missing file.
ArgumentsParse == program = "index" => parseArgs(args).outcome = "ok"

C10_MissingDefaultSchema ==
    (NoSchemaFlag /\ schemaFile = "none" /\ ArgumentsParse) =>
        /\ providerCalls = 0
        /\ pc \in {"rejected", "failed"} =>
               IsDefined(error) /\ Includes(error[1], ExpectedDefaultPath)
        /\ RunEnded => FailedOnMissingFile

C10_Witness ==
    /\ program = "index"
    /\ NoSchemaFlag
    /\ args # <<>>
    /\ schemaFile = "none"
    /\ FailedOnMissingFile

\* The argument right after the first occurrence of the flag, when there is
\* one.
FirstIndex(flag) == CHOOSE i \in 1..Len(args) :
                        args[i] = flag /\ \A k \in 1..(i - 1) : args[k] # flag

FollowsFirst(flag) ==
    IF (\E i \in 1..Len(args) : args[i] = flag) /\ FirstIndex(flag) < Len(args)
    THEN Some(args[FirstIndex(flag) + 1])
    ELSE Undefined

\* Texts that are not the JSON text of a plain object: unparsable, an array,
\* null, a number, a string, a boolean.
NotPlainObjectTexts ==
    {vScopesBad, vScopesArr, vScopesNull, vScopesNum, vScopesStr, vScopesTrue}

FailedOnOauthScopes ==
    /\ pc \in {"rejected", "failed"}
    /\ IsDefined(error)
    /\ Includes(error[1], aOauthScopes)
    /\ resolvedSchemaPath = Undefined
    /\ dmmf = Undefined
    /\ providerCalls = 0
    /\ written = <<>>

\* C11 (as stated): whenever --oauthScopes is followed by a value that is not
\* the JSON text of a plain object, the run fails naming --oauthScopes before
\* the schema file is read and before anything is written.
C11_AsStated ==
    (/\ program = "index"
     /\ IsDefined(FollowsFirst(aOauthScopes))
     /\ FollowsFirst(aOauthScopes)[1] \in NotPlainObjectTexts \cup {<<>>}
     /\ pc # "start") => FailedOnOauthScopes

\* C11 (amended): when no help flag is given and the argument after the first
\* --oauthScopes is non-empty and does not start with '--', a value that is
\* not the JSON text of a plain object makes the run fail naming
\* --oauthScopes before the schema file is read, the provider is called or
\* anything is written, and the failed run ends with exit code 1; the JSON
\* text of a plain object becomes the configured scopes.
CountsAsValue(v) == v # <<>> /\ ~StartsWith(v, sDashDash)

NoHelpFlag == \A i \in 1..Len(args) : args[i] \notin {aHelp, aH}

C11_OauthScopes ==
    (/\ program = "index"
     /\ NoHelpFlag
     /\ IsDefined(FollowsFirst(aOauthScopes))
     /\ CountsAsValue(FollowsFirst(aOauthScopes)[1])) =>
        LET v == FollowsFirst(aOauthScopes)[1]
        IN  /\ (v \in NotPlainObjectTexts /\ pc # "start") =>
                   /\ FailedOnOauthScopes
                   /\ pc = "failed" => exitCode = Some(1)
            /\ (v = vScopesObj /\ IsDefined(cfg)) =>
                   cfg[1].oauth.scopes = << <<vRead, vR>> >>
            /\ (v = vScopesObj /\ pc = "done") =>
                   ObjGet(ObjGet(ObjGet(written[1].content.docs, sComponents),
                                 kSecuritySchemes),
                          cfg[1].securitySchemeName).flows.password.scopes
                       = << <<vRead, vR>> >>

C11_Witness ==
    /\ program = "index"
    /\ FollowsFirst(aOauthScopes) = Some(vScopesStr)
    /\ pc = "failed"
    /\ exitCode = Some(1)
    /\ FailedOnOauthScopes

CapRespected ==
    /\ \A i \in 1..Len(calls.stack) : calls.stack[i].depth <= DepthCap + 1
    /\ \A e \in calls.log :
           e.depth > DepthCap =>
               \/ e.op = "enter"
               \/ e.op = "return" /\ ~e.defined
    /\ IsDefined(calls.returned) =>
           calls.returned[1] =
               buildExampleFromSchema(calls.root, calls.components, 0)

C13_DepthCapped == [](CapRespected) /\ <>(IsDefined(calls.returned))

\* A self-referencing schema was evaluated to its end and a call was entered
\* beyond the cap on the way.
C13_Witness ==
    /\ pc = "example"
    /\ IsDefined(calls.returned)
    /\ calls.root \in {RefTo(mUser), RefTo(mTag)}
    /\ \E e \in calls.log : e.depth = DepthCap + 1 /\ e.op = "return"

\* The names of the write and update request schemas of the datamodel, and
\* of the fixed error schemas that are stored with an example.
WriteUpdateNames ==
    UNION { {sPost \o dmmf[1].models[i].name \o sRequest,
             sPut \o dmmf[1].models[i].name \o sRequest} :
            i \in 1..Len(dmmf[1].models) }

FixedExampleNames == {sBadRequestResponse, sNotFoundResponse, sInternalErrorResponse}

\* What attachExample promises about one schema of a collection: a present
\* example stays, an example is added exactly when none is present and a
\* value is determined, and every other key is returned as it was.
AttachKeeps(s, components) ==
    LET t == attachExample(s, components)
    IN  /\ "example" \in DOMAIN s => t = s
        /\ "example" \in DOMAIN t <=>
               \/ "example" \in DOMAIN s
               \/ IsDefined(buildExampleFromSchema(s, components, 0))
        /\ WithoutExample(t) = WithoutExample(s)

\* C14 (as stated): attachExample never replaces an example that is
\* present, adds one only when none is present and a value is determined,
\* and returns every other key as it was; in the collection the build
\* leaves, the write and update request schemas are the only ones an
\* example was attached to (the fixed error schemas are stored with theirs).
C14_AsStated ==
    (program = "part000" /\ pc \in {"assembled", "done"}) =>
        /\ \A i \in 1..Len(schemas) : AttachKeeps(schemas[i][2], schemas)
        /\ ObjGet(schemas, sBadRequestResponse)
               = ErrorSchema(400, xBadRequestTitle, xBadRequestType)
        /\ \A i \in 1..Len(schemas) :
               "example" \in DOMAIN schemas[i][2] =>
                   schemas[i][1] \in WriteUpdateNames \cup FixedExampleNames

\* The documented rules, read off a property schema p of a request schema:
\* a reference to an enum schema gives that enum's first literal, a scalar
\* the fixed value of its type, and an array the one-element list of its
\* item's value. A reference to a name the collection does not hold has no
\* determined value: the property is omitted, a list of it is empty.
RuleItem(q, components) ==
    IF "ref" \in DOMAIN q
    THEN LET segments == Split(q.ref, "/")
             name == segments[Len(segments)]
         IN  IF ObjHas(components, name)
                /\ "enum" \in DOMAIN ObjGet(components, name)
                /\ Len(ObjGet(components, name).enum) > 0
             THEN Some(JsString(ObjGet(components, name).enum[1]))
             ELSE Undefined
    ELSE Some(exampleForScalarType(q.type,
                  IF "format" \in DOMAIN q THEN Some(q.format) ELSE Undefined))

RuleExample(p, components) ==
    IF "type" \in DOMAIN p /\ p.type = "array" /\ "items" \in DOMAIN p
    THEN Some(JsArray(RuleItem(p.items, components)))
    ELSE RuleItem(p, components)

RECURSIVE RuleEntries(_, _)
RuleEntries(props, components) ==
    IF props = <<>> THEN <<>>
    ELSE LET value == RuleExample(Head(props)[2], components)
         IN  (IF IsDefined(value) THEN << <<Head(props)[1], value[1]>> >> ELSE <<>>)
                 \o RuleEntries(Tail(props), components)

RuleObject(props, components) == JsObject(RuleEntries(props, components))

\* C15 (as stated): the example stored with every write and update request
\* schema has, for each property of the schema and in the schema's order,
\* the value the documented rules give: one-element lists for arrays (of
\* scalars and of enums alike), the first literal for an enum, the fixed
\* value for a scalar.
C15_AsStated ==
    (program = "part000" /\ pc \in {"assembled", "done"}) =>
        \A i \in 1..Len(dmmf[1].models) :
            \A prefix \in {sPost, sPut} :
                LET s == ObjGet(schemas, prefix \o dmmf[1].models[i].name \o sRequest)
                IN  /\ "example" \in DOMAIN s
                    /\ s.example = RuleObject(s.properties, schemas)

\* The schema value stored under a key, seen through the objects.
StoredAt(key) == Deref(heap, ObjGet(roots, key))

\* C16: in a build of index.ts, after stripWriteFields and makeAllOptional
\* have run for a model, the object stored as its read schema still has the
\* properties and the required list modelToGetSchema gave it and the object
\* stored as its write schema still has what stripWriteFields returned;
\* every stored object shows the value the collection holds for its key;
\* and no object reached from the schema of one key is reached from the
\* schema of another key.
C16_NoAliasing ==
    (IsDefined(objects) /\ pc \in {"build", "assembled", "done"}) =>
        /\ \A i \in 1..modelIdx :
               LET model == dmmf[1].models[i]
                   read  == modelToGetSchema(model, getRefName)
               IN  /\ StoredAt(sGet \o model.name \o sResponse) = read
                   /\ StoredAt(sPost \o model.name \o sRequest)
                          = stripWriteFields(model, read,
                                             Settings.omitFieldsInWriteDtos)
        /\ Len(roots) = Len(schemas)
        /\ \A i \in 1..Len(roots) :
               /\ roots[i][1] = schemas[i][1]
               /\ Deref(heap, roots[i][2]) = schemas[i][2]
        /\ \A i, j \in 1..Len(roots) :
               i # j => Reach(heap, roots[i][2]) \cap Reach(heap, roots[j][2]) = {}

\* Two models and an enum are stored; one write schema lost properties of
\* its read schema and kept a required list, which its update schema lacks.
C16_Witness ==
    /\ IsDefined(objects)
    /\ pc = "assembled"
    /\ modelIdx = 2
    /\ enumIdx >= 1
    /\ \E i \in 1..modelIdx :
           LET name == dmmf[1].models[i].name
               read == StoredAt(sGet \o name \o sResponse)
               post == StoredAt(sPost \o name \o sRequest)
               put  == StoredAt(sPut \o name \o sRequest)
           IN  /\ "required" \in DOMAIN read
               /\ "required" \in DOMAIN post
               /\ Len(post.properties) < Len(read.properties)
               /\ Len(post.required) < Len(read.required)
               /\ "required" \notin DOMAIN put
               /\ \E k \in 1..Len(put.properties) :
                      "items" \in DOMAIN put.properties[k][2]

\* The defaults README.md documents (lines 168-178).  Its controllersGlob and
\* openapiOut are the texts part_000 has in CONFIG and its serverUrl is the
\* text index.ts has in DEFAULT_CONFIG.
readmeServiceTitle == <<"M", "y", " ", "S", "e", "r", "v", "i", "c", "e">>

DocumentedDefaults ==
    [controllersGlob |-> cControllersGlob,
     openapiOut |-> cOpenapiOut,
     serviceTitle |-> readmeServiceTitle,
     serverUrl |-> dServerUrl,
     omitFieldsInWriteDtos |-> {fId, fCreatedAt, fUpdatedAt}]

\* C17 (as stated): in a run without flags the effective configuration has
\* the documented controllersGlob, openapiOut, serviceTitle and serverUrl,
\* and its omit-set is exactly {id, createdAt, updatedAt}.
C17_AsStated ==
    (/\ args = <<>>
     /\ IF program = "index" THEN IsDefined(cfg) ELSE pc # "start") =>
        \A k \in DOMAIN DocumentedDefaults : Settings[k] = DocumentedDefaults[k]

\* The argument a flag takes its value from: the one right after the first
\* occurrence of the flag, when there is one, it is not empty and does not
\* start with '--'.
FlagValue(flag) ==
    IF IsDefined(FollowsFirst(flag)) /\ CountsAsValue(FollowsFirst(flag)[1])
    THEN FollowsFirst(flag)
    ELSE Undefined

OrDefault(flag, default) ==
    IF IsDefined(FlagValue(flag)) THEN FlagValue(flag)[1] ELSE default

\* C18 (as stated): every text-valued field of the effective configuration is
\* the argument of its flag, or the default when the flag has no such
\* argument; the scopes and the omit-set are the defaults when their flags
\* have none; and the default configuration object is unchanged.
C18_AsStated ==
    (program = "index" /\ IsDefined(cfg)) =>
        LET c == cfg[1]
            d == DEFAULT_CONFIG
        IN  /\ c.projectRoot = OrDefault(aProjectRoot, d.projectRoot)
            /\ c.controllersGlob = OrDefault(aControllersGlob, d.controllersGlob)
            /\ c.outFile = OrDefault(aOutFile, d.outFile)
            /\ c.openapiOut = OrDefault(aOpenapiOut, d.openapiOut)
            /\ c.serviceTitle = OrDefault(aServiceTitle, d.serviceTitle)
            /\ c.serverUrl = OrDefault(aServerUrl, d.serverUrl)
            /\ c.securitySchemeName = OrDefault(aSecuritySchemeName, d.securitySchemeName)
            /\ c.oauth.tokenUrl = OrDefault(aOauthTokenUrl, d.oauth.tokenUrl)
            /\ c.oauth.refreshUrl = OrDefault(aOauthRefreshUrl, d.oauth.refreshUrl)
            /\ ~IsDefined(FlagValue(aOauthScopes)) => c.oauth.scopes = d.oauth.scopes
            /\ ~IsDefined(FlagValue(aOmitFields))
                   => c.omitFieldsInWriteDtos = d.omitFieldsInWriteDtos
            /\ defaults = d

\* A path-like text with every separator of the platform written as '/'.
Slashed(v) ==
    IF platform = "win32"
    THEN [i \in 1..Len(v) |-> IF v[i] = "\\" THEN "/" ELSE v[i]]
    ELSE v

\* A relative directory name below the working directory, in native form.
BelowCwd(v) == IF IsAbsolute(v) THEN v ELSE Cwd \o <<PathSep>> \o v

\* The names a comma-separated text lists: its pieces without surrounding
\* whitespace, the empty ones left out.
NamesOf(text) ==
    {Trim(Split(text, ",")[i]) : i \in 1..Len(Split(text, ","))} \ {<<>>}

\* C18: whenever a run of index.ts has built its effective configuration
\* (no help flag, no rejected --oauthScopes), every field is determined by
\* its own flag alone: the title, server URL, scheme name and the two OAuth
\* URLs are the flag's argument as given; controllersGlob, outFile and
\* openapiOut are the argument with the platform's separators written as
\* '/'; projectRoot is the argument resolved against the working directory;
\* the scopes are the object the argument denotes; the omit-set is the set
\* of names the argument lists.  A flag without an argument that counts
\* leaves the default, and the default configuration object is unchanged.
C18_FlagsOverride ==
    (program = "index" /\ IsDefined(cfg)) =>
        LET c == cfg[1]
            d == DEFAULT_CONFIG
        IN  /\ c.projectRoot =
                   (IF IsDefined(FlagValue(aProjectRoot))
                    THEN BelowCwd(FlagValue(aProjectRoot)[1]) ELSE d.projectRoot)
            /\ c.controllersGlob = Slashed(OrDefault(aControllersGlob, d.controllersGlob))
            /\ c.outFile = Slashed(OrDefault(aOutFile, d.outFile))
            /\ c.openapiOut = Slashed(OrDefault(aOpenapiOut, d.openapiOut))
            /\ c.serviceTitle = OrDefault(aServiceTitle, d.serviceTitle)
            /\ c.serverUrl = OrDefault(aServerUrl, d.serverUrl)
            /\ c.securitySchemeName = OrDefault(aSecuritySchemeName, d.securitySchemeName)
            /\ c.oauth.tokenUrl = OrDefault(aOauthTokenUrl, d.oauth.tokenUrl)
            /\ c.oauth.refreshUrl = OrDefault(aOauthRefreshUrl, d.oauth.refreshUrl)
            /\ c.oauth.scopes =
                   (IF IsDefined(FlagValue(aOauthScopes))
                    THEN JsonParse(FlagValue(aOauthScopes)[1]).value
                    ELSE d.oauth.scopes)
            /\ c.omitFieldsInWriteDtos =
                   (IF IsDefined(FlagValue(aOmitFields))
                    THEN NamesOf(FlagValue(aOmitFields)[1])
                    ELSE d.omitFieldsInWriteDtos)
            /\ defaults = d

\* A flag occurs twice with different arguments, another flag has no
\* argument that counts, and a path argument was rewritten.
C18_Witness ==
    /\ program = "index"
    /\ IsDefined(cfg)
    /\ platform = "win32"
    /\ \E i, k \in 1..Len(args) :
           /\ i + 1 < k /\ k < Len(args)
           /\ args[i] = aOutFile /\ args[k] = aOutFile
           /\ args[i + 1] # args[k + 1]
    /\ cfg[1].outFile # args[FirstIndex(aOutFile) + 1]
    /\ cfg[1].outFile = Slashed(args[FirstIndex(aOutFile) + 1])
    /\ args[Len(args)] = aOauthTokenUrl
    /\ cfg[1].oauth.tokenUrl = DEFAULT_CONFIG.oauth.tokenUrl

\* C19 (as stated): the datamodels have pairwise distinct model names and
\* pairwise distinct enum names; when the build has finished, the
\* collection holds one key per enum and four per model (and, in part_000,
\* the four fixed error schemas), every enum's schema is under the enum's
\* name, and every model's list schema, under the model's list name, lists
\* the read schema of that model.
C19_AsStated ==
    pc \in {"assembled", "done"} =>
        LET enums  == dmmf[1].enums
            models == dmmf[1].models
        IN  /\ Len(schemas) = Len(enums) + 4 * Len(models)
                                  + (IF program = "index" THEN 0 ELSE 4)
            /\ \A i \in 1..Len(enums) :
                   LET stored == ObjGet(schemas, enums[i].name)
                   IN  /\ "enum" \in DOMAIN stored
                       /\ stored.enum = [k \in 1..Len(enums[i].values) |->
                                            enums[i].values[k].name]
            /\ \A i \in 1..Len(models) :
                   LET stored == ObjGet(schemas,
                                     sList \o pluralize(models[i].name) \o sResponse)
                   IN  ObjGet(stored.properties, pItems).items.ref
                           = RefPrefix \o sGet \o models[i].name \o sResponse

====
